---- MODULE Spec2Model ----
(***************************************************************************)
(* State-machine model of the OKX trade simulator core:                    *)
(*   - OrderBook            (src/src/data/order_book.py)                   *)
(*   - OrderBook            (src/src/data/orderbook.py), the second book   *)
(*     class of the repository                                             *)
(*   - SimulationEngine     (src/src/models/simulation_engine.py)          *)
(*   - the four cost models (src/src/models/*.py), as far as their         *)
(*     control flow (computed value / fallback value / exception) goes     *)
(*   - WebSocketConnector   (src/src/websocket/connector.py)               *)
(*                                                                         *)
(* Python values are modelled by tagged records so that values of          *)
(* different Python types can be told apart without comparing TLA+ values  *)
(* of different sorts.  Prices and quantities are integers (ticks/lots);   *)
(* a price midway between two ticks is kept as twice its value.            *)
(***************************************************************************)
EXTENDS Integers, Sequences, FiniteSets, TLC

VARIABLES
    \* ---- SimulationEngine + its OrderBook --------------------------------
    parameters,        \* SimulationEngine.parameters
    order_book,        \* SimulationEngine.order_book (an OrderBook object)
    tick_count,        \* SimulationEngine.tick_count
    processing_times,  \* SimulationEngine.processing_times (number of samples)
    last_tick,         \* the last process_tick call: input, outcome, result
    \* ---- the book classes called directly ---------------------------------
    orderbook,         \* an OrderBook of src/src/data/orderbook.py
    last_update,       \* the last direct call of update() on order_book or
                       \* orderbook: its data, the book before it, whether
                       \* it raised
    last_query,        \* the last call of a read-only method of either
                       \* book: its name, its arguments, what it returned
    \* ---- WebSocketConnector ----------------------------------------------
    should_run,        \* WebSocketConnector.should_run
    reconnect_attempts,\* WebSocketConnector.reconnect_attempts
    websocket,         \* WebSocketConnector.websocket: 0 = None, t = the
                       \* connection made by maintenance task t
    connection_task,   \* WebSocketConnector.connection_task: 0 = None
    subscriptions,     \* WebSocketConnector.subscriptions (a list)
    last_ping_time,    \* WebSocketConnector.last_ping_time
    last_pong_time,    \* WebSocketConnector.last_pong_time
    tasks,             \* the _maintain_connection tasks created so far
    calls,             \* the public coroutines (connect, subscribe, ...) in flight
    now,               \* time.time()
    failures,          \* transport failures seen in a row since the last
                       \* successful connection or connect() call
    last_op            \* what the last step showed to the outside: the call
                       \* or loop that ran, what it put on the transport,
                       \* what it returned (blank after a silent step)

book_vars == <<orderbook, last_update, last_query>>
engine_vars == <<parameters, order_book, tick_count, processing_times, last_tick,
                 orderbook, last_update, last_query>>
conn_vars == <<should_run, reconnect_attempts, websocket, connection_task,
               subscriptions, last_ping_time, last_pong_time, tasks, calls,
               now, failures, last_op>>
vars == <<parameters, order_book, tick_count, processing_times, last_tick,
          orderbook, last_update, last_query,
          should_run, reconnect_attempts, websocket, connection_task,
          subscriptions, last_ping_time, last_pong_time, tasks, calls,
          now, failures, last_op>>

(***************************************************************************)
(* Bounds of the model                                                     *)
(***************************************************************************)
MaxLevels == 2      \* levels per side of an incoming snapshot
MaxTicks == 2       \* process_tick calls per behaviour
MaxConnects == 2    \* connect() calls per behaviour
MaxPairs == 1       \* distinct (channel, instId) pairs the owner subscribes to
MaxCalls == 2       \* public coroutines suspended at an await at one time
MaxMsgs == 2        \* messages taken from one connection
MaxBookLevels == 2  \* levels of any kind in one side of a direct update()
MaxUpdates == 2     \* direct update() calls per behaviour
BookDepth == 2      \* max_depth of the book that is updated directly
MaxDepthArg == 3    \* the largest number of levels asked of get_depth
MaxNotional == 10   \* the largest quantity_usd of a market order that is costed
MaxSamples == 101   \* process_tick calls of a long run of the engine
ClockConnects == 1  \* connect() calls in the runs with a clock
ClockCalls == 1     \* suspended public coroutines in the runs with a clock
StartTime == 100    \* time.time() when the connector is constructed
MaxTime == 142      \* the clock stops advancing here

(***************************************************************************)
(* Python values                                                           *)
(***************************************************************************)
NoneVal == [tag |-> "None", n |-> 0]
NumStr(n) == [tag |-> "numstr", n |-> n]      \* a str that float() parses
TextStr == [tag |-> "text", n |-> 0]          \* a str that float() rejects
Float(n) == [tag |-> "float", n |-> n]
WallClock == [tag |-> "wallclock", n |-> 0]   \* a reading of time.time()*1000

\* float(x): the parsed number, or ValueError/TypeError.
ParseFloat(tok) ==
    IF tok.tag \in {"numstr", "float"}
    THEN [ok |-> TRUE, val |-> tok.n]
    ELSE [ok |-> FALSE, val |-> 0]

\* d.get(key, default) on a dict kept as a function from keys to values.
DictGet(d, key, default) == IF key \in DOMAIN d THEN d[key] ELSE default

Max(S) == CHOOSE x \in S : \A y \in S : y <= x
Min(S) == CHOOSE x \in S : \A y \in S : x <= y
Abs(x) == IF x < 0 THEN -x ELSE x

\* The floats of the arithmetic on prices and quantities, kept exactly: the
\* fraction num/den with den > 0, in lowest terms.  d is not zero.
RECURSIVE GCD(_, _)
GCD(a, b) == IF b = 0 THEN a ELSE GCD(b, a % b)

Frac(n, d) ==
    LET g == GCD(Abs(n), Abs(d))
        s == IF d < 0 THEN -1 ELSE 1
    IN [num |-> (s * n) \div g, den |-> (s * d) \div g]

Whole(n) == [num |-> n, den |-> 1]
FracAdd(a, b) == Frac(a.num * b.den + b.num * a.den, a.den * b.den)
FracSub(a, b) == Frac(a.num * b.den - b.num * a.den, a.den * b.den)
FracMul(a, b) == Frac(a.num * b.num, a.den * b.den)
FracDiv(a, b) == Frac(a.num * b.den, a.den * b.num)     \* b is not zero
FracLE(a, b) == a.num * b.den <= b.num * a.den
FracLT(a, b) == a.num * b.den < b.num * a.den
FracAbs(a) == [num |-> Abs(a.num), den |-> a.den]

\* An Optional[float]: None, or a number.
NoNumber == [tag |-> "None", num |-> 0, den |-> 1]
Number(f) == [tag |-> "float", num |-> f.num, den |-> f.den]

(***************************************************************************)
(* OrderBook (src/src/data/order_book.py)                                  *)
(***************************************************************************)
EmptySide == [p \in {} |-> 0]

\* side[price] = quantity on a SortedDict: a later level at the same price
\* overwrites the earlier one.
SidePut(side, price, quantity) ==
    [x \in (DOMAIN side) \cup {price} |-> IF x = price THEN quantity ELSE side[x]]

SideDel(side, price) == [x \in (DOMAIN side) \ {price} |-> side[x]]

\* OrderBook.__init__
NewOrderBook(depth) ==
    [asks |-> EmptySide, bids |-> EmptySide,
     last_update_time |-> Float(0), is_initialized |-> FALSE,
     mid_price |-> NoneVal, max_depth |-> depth]

\* The for-loop of _update_side with "quantity < 0" for "quantity <= 0".
RECURSIVE ProcessLevelsKeepZero(_, _, _)
ProcessLevelsKeepZero(side, levels, i) ==
    IF i > Len(levels) THEN [raised |-> FALSE, side |-> side]
    ELSE LET level == levels[i] IN
         IF ~level.seq THEN [raised |-> TRUE, side |-> side]
         ELSE IF Len(level.toks) < 2 THEN ProcessLevelsKeepZero(side, levels, i + 1)
         ELSE LET price == ParseFloat(level.toks[1])
                  quantity == ParseFloat(level.toks[2])
              IN IF ~price.ok \/ ~quantity.ok
                 THEN ProcessLevelsKeepZero(side, levels, i + 1)
                 ELSE IF quantity.val < 0
                 THEN ProcessLevelsKeepZero(side, levels, i + 1)
                 ELSE ProcessLevelsKeepZero(SidePut(side, price.val, quantity.val),
                                            levels, i + 1)

\* The for-loop of _update_side from level i on.  A level is
\* [seq |-> it supports len() and indexing, toks |-> its items].
\* len(level) on a level that is no sequence raises TypeError, which
\* _update_side does not catch: the levels stored so far stay in the side.
RECURSIVE ProcessLevels(_, _, _)
ProcessLevels(side, levels, i) ==
    IF i > Len(levels) THEN [raised |-> FALSE, side |-> side]
    ELSE LET level == levels[i] IN
         IF ~level.seq THEN [raised |-> TRUE, side |-> side]
         ELSE IF Len(level.toks) < 2 THEN ProcessLevels(side, levels, i + 1)
         ELSE LET price == ParseFloat(level.toks[1])
                  quantity == ParseFloat(level.toks[2])
              IN IF ~price.ok \/ ~quantity.ok
                 THEN ProcessLevels(side, levels, i + 1)
                 ELSE IF quantity.val <= 0
                 THEN ProcessLevels(side, levels, i + 1)
                 ELSE ProcessLevels(SidePut(side, price.val, quantity.val),
                                    levels, i + 1)

\* The trimming loops of _update_side: bids lose their lowest price,
\* asks their highest, until at most max_depth levels are left.
RECURSIVE TrimSide(_, _, _)
TrimSide(side, is_bid, depth) ==
    IF Cardinality(DOMAIN side) <= depth THEN side
    ELSE TrimSide(SideDel(side, IF is_bid THEN Min(DOMAIN side)
                                          ELSE Max(DOMAIN side)),
                  is_bid, depth)

\* OrderBook._update_side(levels, is_bid) on the side's old contents.  The
\* argument is [iter |-> it can be iterated, items |-> its levels]; the
\* side is cleared before the first level is read.
UpdateSide(levels, is_bid, depth) ==
    IF ~levels.iter THEN [raised |-> TRUE, side |-> EmptySide]
    ELSE LET r == ProcessLevels(EmptySide, levels.items, 1) IN
         IF r.raised THEN r
         ELSE [raised |-> FALSE, side |-> TrimSide(r.side, is_bid, depth)]

\* Python truth value of the 'asks'/'bids' entry of the data.
Truthy(levels) == ~levels.iter \/ Len(levels.items) > 0

\* OrderBook._calculate_mid_price; the mid price is kept as twice its value.
CalculateMidPrice(bids, asks) ==
    IF DOMAIN bids = {} \/ DOMAIN asks = {} THEN NoneVal
    ELSE LET best_bid == Max(DOMAIN bids)
             best_ask == Min(DOMAIN asks)
         IN IF best_bid # 0 /\ best_ask # 0
            THEN [tag |-> "half", n |-> best_bid + best_ask]
            ELSE NoneVal

\* The timestamp conversion at the head of OrderBook.update.
UpdateTimestamp(timestamp) ==
    IF timestamp.tag = "numstr" THEN Float(timestamp.n)
    ELSE IF timestamp.tag = "text" THEN WallClock
    ELSE timestamp

\* OrderBook.update(data): the book after the call and whether the call
\* raised.  An exception leaves the book as the statements before it made it.
BookUpdate(book, data) ==
    LET a == IF Truthy(data.asks)
             THEN UpdateSide(data.asks, FALSE, book.max_depth)
             ELSE [raised |-> FALSE, side |-> book.asks]
        afterAsks == [book EXCEPT !.asks = a.side]
    IN IF a.raised THEN [raised |-> TRUE, book |-> afterAsks]
       ELSE LET b == IF Truthy(data.bids)
                     THEN UpdateSide(data.bids, TRUE, book.max_depth)
                     ELSE [raised |-> FALSE, side |-> book.bids]
                afterBids == [afterAsks EXCEPT !.bids = b.side]
            IN IF b.raised THEN [raised |-> TRUE, book |-> afterBids]
               ELSE [raised |-> FALSE,
                     book |-> [afterBids EXCEPT
                                 !.last_update_time = UpdateTimestamp(data.timestamp),
                                 !.mid_price = CalculateMidPrice(b.side, a.side),
                                 !.is_initialized = TRUE]]

\* The keys of a SortedDict in the order its iteration gives them.
RECURSIVE KeysAscending(_)
KeysAscending(keys) ==
    IF keys = {} THEN <<>>
    ELSE <<Min(keys)>> \o KeysAscending(keys \ {Min(keys)})

\* The first n items of a sequence (the loops that break at i >= n).
FirstN(seq, n) == SubSeq(seq, 1, IF n < Len(seq) THEN n ELSE Len(seq))

\* OrderBook.get_depth(price_levels) of order_book.py: both sides are
\* walked in the order of their keys, the price.
get_depth(book, price_levels) ==
    LET ak == FirstN(KeysAscending(DOMAIN book.asks), price_levels)
        bk == FirstN(KeysAscending(DOMAIN book.bids), price_levels)
    IN [asks |-> [i \in 1..Len(ak) |-> <<ak[i], book.asks[ak[i]]>>],
        bids |-> [i \in 1..Len(bk) |-> <<bk[i], book.bids[bk[i]]>>]]

SumQty(side, prices) ==
    LET RECURSIVE S(_)
        S(ps) == IF ps = {} THEN 0
                 ELSE LET p == CHOOSE x \in ps : TRUE IN side[p] + S(ps \ {p})
    IN S(prices)

\* The loop of _estimate_price_impact over items = <<price, qty>> pairs,
\* from item i on: what is left of the size and the cost so far.
RECURSIVE ImpactWalk(_, _, _, _)
ImpactWalk(items, i, remaining_size, total_cost) ==
    IF i > Len(items) \/ remaining_size <= 0
    THEN [remaining_size |-> remaining_size, total_cost |-> total_cost]
    ELSE LET price == items[i][1]
             qty == items[i][2]
             taken == IF remaining_size < qty THEN remaining_size ELSE qty
         IN ImpactWalk(items, i + 1, remaining_size - taken, total_cost + taken * price)

\* The cost _estimate_price_impact arrives at before it divides: the walk
\* from the best price on, what is left over costed at the last price.
ImpactCost(book, size, is_buy) ==
    LET ak == KeysAscending(DOMAIN book.asks)
        bk == KeysAscending(DOMAIN book.bids)
        items == IF is_buy THEN [i \in 1..Len(ak) |-> <<ak[i], book.asks[ak[i]]>>]
                 ELSE [i \in 1..Len(bk) |->
                          <<bk[Len(bk) + 1 - i], book.bids[bk[Len(bk) + 1 - i]]>>]
        w == ImpactWalk(items, 1, size, 0)
    IN IF w.remaining_size > 0
       THEN w.total_cost + w.remaining_size * items[Len(items)][1]
       ELSE w.total_cost

\* OrderBook._estimate_price_impact(size, is_buy), size > 0: the impact as
\* a fraction of the mid price, 0 where the method gives up.
estimate_price_impact(book, size, is_buy) ==
    IF ~book.is_initialized \/ DOMAIN book.bids = {} \/ DOMAIN book.asks = {}
    THEN Whole(0)
    ELSE LET mid2 == IF book.mid_price.tag = "half" /\ book.mid_price.n # 0
                     THEN book.mid_price.n
                     ELSE Max(DOMAIN book.bids) + Min(DOMAIN book.asks)
         IN IF mid2 = 0 THEN Whole(0)
            ELSE LET avg_price == Frac(ImpactCost(book, size, is_buy), size)
                     mid_price == Frac(mid2, 2)
                 IN FracDiv(FracAbs(FracSub(avg_price, mid_price)), mid_price)

\* The entries get_order_book_features writes per depth and per size
\* (lines 363-379): their names, what they are, the depth or size.
SizedFeatures ==
    {[name |-> "bid_depth_1", kind |-> "bid_depth", n |-> 1],
     [name |-> "ask_depth_1", kind |-> "ask_depth", n |-> 1],
     [name |-> "depth_imbalance_1", kind |-> "depth_imbalance", n |-> 1],
     [name |-> "bid_impact_1", kind |-> "bid_impact", n |-> 1],
     [name |-> "ask_impact_1", kind |-> "ask_impact", n |-> 1],
     [name |-> "bid_depth_5", kind |-> "bid_depth", n |-> 5],
     [name |-> "ask_depth_5", kind |-> "ask_depth", n |-> 5],
     [name |-> "depth_imbalance_5", kind |-> "depth_imbalance", n |-> 5],
     [name |-> "bid_impact_5", kind |-> "bid_impact", n |-> 5],
     [name |-> "ask_impact_5", kind |-> "ask_impact", n |-> 5],
     [name |-> "bid_depth_10", kind |-> "bid_depth", n |-> 10],
     [name |-> "ask_depth_10", kind |-> "ask_depth", n |-> 10],
     [name |-> "depth_imbalance_10", kind |-> "depth_imbalance", n |-> 10],
     [name |-> "bid_impact_10", kind |-> "bid_impact", n |-> 10],
     [name |-> "ask_impact_10", kind |-> "ask_impact", n |-> 10]}

\* The n best prices of a side.
BestPrices(side, is_bid, n) ==
    {p \in DOMAIN side :
        Cardinality({q \in DOMAIN side : IF is_bid THEN q > p ELSE q < p}) < n}

\* OrderBook.get_order_book_features: {} when the book is not initialized
\* or a side is empty or the try block fails, else the feature dict under
\* the names the method writes.
GetOrderBookFeatures(book) ==
    IF ~book.is_initialized \/ DOMAIN book.bids = {} \/ DOMAIN book.asks = {}
    THEN [k \in {} |-> 0]
    ELSE LET bb == Max(DOMAIN book.bids)
             ba == Min(DOMAIN book.asks)
             bv == SumQty(book.bids, DOMAIN book.bids)
             av == SumQty(book.asks, DOMAIN book.asks)
             bid_depth(n) == SumQty(book.bids, BestPrices(book.bids, TRUE, n))
             ask_depth(n) == SumQty(book.asks, BestPrices(book.asks, FALSE, n))
             Sized(e) ==
                 CASE e.kind = "bid_depth" -> Number(Whole(bid_depth(e.n)))
                   [] e.kind = "ask_depth" -> Number(Whole(ask_depth(e.n)))
                   [] e.kind = "depth_imbalance" ->
                        IF bid_depth(e.n) + ask_depth(e.n) > 0
                        THEN Number(Frac(bid_depth(e.n) - ask_depth(e.n),
                                         bid_depth(e.n) + ask_depth(e.n)))
                        ELSE Number(Whole(0))
                   [] e.kind = "bid_impact" ->
                        Number(estimate_price_impact(book, e.n, FALSE))
                   [] e.kind = "ask_impact" ->
                        Number(estimate_price_impact(book, e.n, TRUE))
         IN IF bb + ba = 0 THEN [k \in {} |-> 0]   \* ZeroDivisionError, caught
            ELSE [k \in {"mid_price", "spread", "spread_pct", "bid_ask_imbalance"}
                         \cup {e.name : e \in SizedFeatures} |->
                    CASE k = "mid_price" -> Number(Frac(bb + ba, 2))
                      [] k = "spread" -> Number(Whole(ba - bb))
                      [] k = "spread_pct" -> Number(Frac(200 * (ba - bb), bb + ba))
                      [] k = "bid_ask_imbalance" ->
                           IF bv + av > 0 THEN Number(Frac(bv - av, bv + av))
                           ELSE Number(Whole(0))
                      [] OTHER ->
                           Sized(CHOOSE e \in SizedFeatures : e.name = k)]

(***************************************************************************)
(* OrderBook (src/src/data/orderbook.py): bids are kept under the negated  *)
(* price, each entry is the pair (price, qty).                             *)
(***************************************************************************)
\* OrderBook.__init__
NewL2Book == [bids |-> EmptySide, asks |-> EmptySide, timestamp |-> NoneVal,
              updated |-> FALSE]

\* One of the two for-loops of update, from level i on.  The loop unpacks
\* each level into exactly two names and converts both with float();
\* whatever fails there is raised.
RECURSIVE L2Levels(_, _, _, _)
L2Levels(side, levels, i, is_bid) ==
    IF i > Len(levels) THEN [raised |-> FALSE, side |-> side]
    ELSE LET level == levels[i] IN
         IF ~level.seq \/ Len(level.toks) # 2 THEN [raised |-> TRUE, side |-> side]
         ELSE LET price == ParseFloat(level.toks[1])
                  qty == ParseFloat(level.toks[2])
              IN IF ~price.ok THEN [raised |-> TRUE, side |-> side]
                 ELSE IF ~qty.ok THEN [raised |-> TRUE, side |-> side]
                 ELSE IF qty.val > 0
                 THEN L2Levels(SidePut(side, IF is_bid THEN -price.val ELSE price.val,
                                       [price |-> price.val, qty |-> qty.val]),
                               levels, i + 1, is_bid)
                 ELSE L2Levels(side, levels, i + 1, is_bid)

\* OrderBook.update(data) of orderbook.py: the book after the call and
\* whether the call raised (the handler logs and raises again).
L2Update(book, data) ==
    LET stamped == [book EXCEPT !.timestamp = data.timestamp]
        b == IF data.bids.iter THEN L2Levels(EmptySide, data.bids.items, 1, TRUE)
             ELSE [raised |-> TRUE, side |-> EmptySide]
        afterBids == [stamped EXCEPT !.bids = b.side]
    IN IF b.raised THEN [raised |-> TRUE, book |-> afterBids]
       ELSE LET a == IF data.asks.iter
                     THEN L2Levels(EmptySide, data.asks.items, 1, FALSE)
                     ELSE [raised |-> TRUE, side |-> EmptySide]
                afterAsks == [afterBids EXCEPT !.asks = a.side]
            IN IF a.raised THEN [raised |-> TRUE, book |-> afterAsks]
               ELSE [raised |-> FALSE, book |-> [afterAsks EXCEPT !.updated = TRUE]]

\* get_best_bid returning the first key as it is stored.
get_best_bid_raw(book) ==
    IF DOMAIN book.bids = {} THEN NoneVal ELSE Float(Min(DOMAIN book.bids))

\* OrderBook.get_depth(levels) of orderbook.py: both sides are walked in
\* the order of their keys, which for bids is the negated price.
L2_get_depth(book, levels) ==
    LET ak == FirstN(KeysAscending(DOMAIN book.asks), levels)
        bk == FirstN(KeysAscending(DOMAIN book.bids), levels)
    IN [asks |-> [i \in 1..Len(ak) |-> <<book.asks[ak[i]].price, book.asks[ak[i]].qty>>],
        bids |-> [i \in 1..Len(bk) |-> <<book.bids[bk[i]].price, book.bids[bk[i]].qty>>]]

\* The getters of orderbook.py; a mid price is kept as twice its value.
get_best_bid(book) ==
    IF DOMAIN book.bids = {} THEN NoneVal ELSE Float(-Min(DOMAIN book.bids))

get_best_ask(book) ==
    IF DOMAIN book.asks = {} THEN NoneVal ELSE Float(Min(DOMAIN book.asks))

get_mid_price(book) ==
    LET best_bid == get_best_bid(book)
        best_ask == get_best_ask(book)
    IN IF best_bid = NoneVal \/ best_ask = NoneVal THEN NoneVal
       ELSE [tag |-> "half", n |-> best_bid.n + best_ask.n]

get_spread(book) ==
    LET best_bid == get_best_bid(book)
        best_ask == get_best_ask(book)
    IN IF best_bid = NoneVal \/ best_ask = NoneVal THEN NoneVal
       ELSE Float(best_ask.n - best_bid.n)

\* OrderBook.get_spread_percentage of orderbook.py.
get_spread_percentage(book) ==
    LET spread == get_spread(book)
        mid_price == get_mid_price(book)
    IN IF spread.tag = "None" \/ mid_price.tag = "None" THEN NoNumber
       ELSE IF mid_price.n = 0 THEN NoNumber
       ELSE Number(FracMul(FracDiv(Whole(spread.n), Frac(mid_price.n, 2)), Whole(100)))

\* sum(...) over a list of numbers, from item i on.
RECURSIVE SumFrom(_, _)
SumFrom(terms, i) == IF i > Len(terms) THEN 0 ELSE terms[i] + SumFrom(terms, i + 1)

\* sum(Term(level) for level in levels if Keep(level))
SumOver(levels, Keep(_), Term(_)) ==
    SumFrom([i \in 1..Len(levels) |-> IF Keep(levels[i]) THEN Term(levels[i]) ELSE 0], 1)

\* OrderBook.get_order_book_features of orderbook.py: the dict it builds,
\* key by key.  The six depth keys are written only when there is a mid
\* price.
L2Features(book) ==
    LET mid_price == get_mid_price(book)
        spread == get_spread(book)
        depth == L2_get_depth(book, 10)
        bids == depth.bids
        asks == depth.asks
        All(l) == TRUE
        Qty(l) == l[2]
        Value(l) == l[1] * l[2]
        bid_volume == SumOver(bids, All, Qty)
        ask_volume == SumOver(asks, All, Qty)
        BidWithin(pct) == LET Near(l) == 200 * l[1] >= (100 - pct) * mid_price.n
                          IN Number(Whole(SumOver(bids, Near, Qty)))
        AskWithin(pct) == LET Near(l) == 200 * l[1] <= (100 + pct) * mid_price.n
                          IN Number(Whole(SumOver(asks, Near, Qty)))
        basic == {"mid_price", "spread", "spread_percentage", "bid_volume",
                  "ask_volume", "volume_imbalance", "weighted_bid_price",
                  "weighted_ask_price"}
        depths == {"bid_depth_1pct", "bid_depth_2pct", "bid_depth_5pct",
                   "ask_depth_1pct", "ask_depth_2pct", "ask_depth_5pct"}
    IN [k \in basic \cup (IF mid_price.tag = "None" THEN {} ELSE depths) |->
          CASE k = "mid_price" ->
                 IF mid_price.tag = "None" THEN NoNumber
                 ELSE Number(Frac(mid_price.n, 2))
            [] k = "spread" ->
                 IF spread.tag = "None" THEN NoNumber ELSE Number(Whole(spread.n))
            [] k = "spread_percentage" -> get_spread_percentage(book)
            [] k = "bid_volume" -> Number(Whole(bid_volume))
            [] k = "ask_volume" -> Number(Whole(ask_volume))
            [] k = "volume_imbalance" ->
                 IF bid_volume + ask_volume > 0
                 THEN Number(Frac(bid_volume - ask_volume, bid_volume + ask_volume))
                 ELSE Number(Whole(0))
            [] k = "weighted_bid_price" ->
                 IF Len(bids) > 0
                 THEN Number(Frac(SumOver(bids, All, Value), bid_volume))
                 ELSE NoNumber
            [] k = "weighted_ask_price" ->
                 IF Len(asks) > 0
                 THEN Number(Frac(SumOver(asks, All, Value), ask_volume))
                 ELSE NoNumber
            [] k = "bid_depth_1pct" -> BidWithin(1)
            [] k = "bid_depth_2pct" -> BidWithin(2)
            [] k = "bid_depth_5pct" -> BidWithin(5)
            [] k = "ask_depth_1pct" -> AskWithin(1)
            [] k = "ask_depth_2pct" -> AskWithin(2)
            [] k = "ask_depth_5pct" -> AskWithin(5)]

\* The for-loop of calculate_market_order_cost over the entries of one side
\* in the order of their keys, from entry i on.  Dividing by a price of
\* zero raises ZeroDivisionError.
RECURSIVE CostWalk(_, _, _, _, _)
CostWalk(entries, i, remaining_quantity_usd, total_cost, total_quantity) ==
    IF i > Len(entries)
    THEN [raised |-> FALSE, remaining_quantity_usd |-> remaining_quantity_usd,
          total_cost |-> total_cost, total_quantity |-> total_quantity]
    ELSE LET price == entries[i].price
             qty == entries[i].qty
             level_quantity_usd == price * qty
             fill_quantity_usd == IF remaining_quantity_usd < level_quantity_usd
                                  THEN remaining_quantity_usd
                                  ELSE level_quantity_usd
         IN IF price = 0
            THEN [raised |-> TRUE, remaining_quantity_usd |-> remaining_quantity_usd,
                  total_cost |-> total_cost, total_quantity |-> total_quantity]
            ELSE LET fill_quantity_asset == Frac(fill_quantity_usd, price)
                     cost == FracAdd(total_cost,
                                     FracMul(fill_quantity_asset, Whole(price)))
                     quantity == FracAdd(total_quantity, fill_quantity_asset)
                     remaining == remaining_quantity_usd - fill_quantity_usd
                 IN IF remaining <= 0
                    THEN [raised |-> FALSE, remaining_quantity_usd |-> remaining,
                          total_cost |-> cost, total_quantity |-> quantity]
                    ELSE CostWalk(entries, i + 1, remaining, cost, quantity)

NoCost == [raised |-> FALSE, total_cost |-> Whole(0), average_price |-> Whole(0),
           slippage_percentage |-> Whole(0)]

\* The tuple calculate_market_order_cost returns after the walk w.
CostResult(w, reference_price, is_buy) ==
    IF w.raised \/ reference_price.n = 0
    THEN [NoCost EXCEPT !.raised = TRUE]
    ELSE LET average_price == IF w.total_quantity.num > 0
                              THEN FracDiv(w.total_cost, w.total_quantity)
                              ELSE Whole(0)
             ratio == FracDiv(average_price, Frac(reference_price.n, 2))
         IN [raised |-> FALSE, total_cost |-> w.total_cost,
             average_price |-> average_price,
             slippage_percentage |->
                 IF is_buy
                 THEN FracMul(FracSub(ratio, Whole(1)), Whole(100))
                 ELSE FracMul(FracSub(Whole(1), ratio), Whole(100))]

\* calculate_market_order_cost walking the side from its last key to its
\* first.
MarketOrderCostWorstFirst(book, quantity_usd, is_buy) ==
    IF quantity_usd <= 0 THEN NoCost
    ELSE LET reference_price == get_mid_price(book) IN
         IF reference_price.tag = "None" THEN NoCost
         ELSE LET side == IF is_buy THEN book.asks ELSE book.bids
                  keys == KeysAscending(DOMAIN side)
              IN CostResult(CostWalk([i \in 1..Len(keys) |->
                                         side[keys[Len(keys) + 1 - i]]], 1,
                                     quantity_usd, Whole(0), Whole(0)),
                            reference_price, is_buy)

\* OrderBook.calculate_market_order_cost(quantity_usd, is_buy) of
\* orderbook.py: the tuple it returns, or that it raised.  What the walk
\* could not fill is logged and is in none of the three numbers.
calculate_market_order_cost(book, quantity_usd, is_buy) ==
    IF quantity_usd <= 0 THEN NoCost
    ELSE LET reference_price == get_mid_price(book) IN
         IF reference_price.tag = "None" THEN NoCost
         ELSE LET side == IF is_buy THEN book.asks ELSE book.bids
                  keys == KeysAscending(DOMAIN side)
              IN CostResult(CostWalk([i \in 1..Len(keys) |-> side[keys[i]]], 1,
                                     quantity_usd, Whole(0), Whole(0)),
                            reference_price, is_buy)

(***************************************************************************)
(* Cost models (src/src/models/*.py).  A result is                         *)
(*   [raised |-> the call raised, error |-> the dict has an 'error' key,   *)
(*    ...the entries of the dict that are numbers...]                      *)
(* Floats are exact fractions.  numpy, sklearn and math are not part of    *)
(* the repository: what np.exp and a fitted sklearn model return is an     *)
(* input (lib), and math.sqrt(1 / (252*24*60*60)) is kept as a unit of     *)
(* its own, so that an amount of money is rat + surd * that square root.   *)
(***************************************************************************)
IsNumber(v) == v.tag = "float"
IsStr(order_type) == order_type \in {"market", "limit"}
FracOf(x) == [num |-> x.num, den |-> x.den]
FracMin(a, b) == IF FracLT(b, a) THEN b ELSE a       \* min(a, b)
FracMax(a, b) == IF FracLT(a, b) THEN b ELSE a       \* max(a, b)
Money(f) == [rat |-> f, surd |-> Whole(0)]
MoneyAdd(x, y) == [rat |-> FracAdd(x.rat, y.rat), surd |-> FracAdd(x.surd, y.surd)]

\* What the libraries return in one call of a model: np.exp of a negative
\* and of a positive number (inf on overflow), predict_proba of the fitted
\* classifier, predict of the fitted regression.
Libs(fitted, probas, predictions) ==
    [is_fitted : fitted,
     exp_below : {Whole(0), Frac(1, 99), Frac(1, 4)},
     exp_above : {[inf |-> FALSE, num |-> 4, den |-> 1], [inf |-> TRUE, num |-> 0, den |-> 1]},
     proba : probas,
     predicted : predictions]
NoLib == [is_fitted |-> FALSE, exp_below |-> Whole(0),
          exp_above |-> [inf |-> TRUE, num |-> 0, den |-> 1],
          proba |-> Whole(0), predicted |-> Whole(0)]

\* np.exp(x)
ExpOf(x, lib) ==
    IF x.num = 0 THEN [inf |-> FALSE, num |-> 1, den |-> 1]
    ELSE IF x.num < 0 THEN [inf |-> FALSE, num |-> lib.exp_below.num,
                            den |-> lib.exp_below.den]
    ELSE lib.exp_above

\* The 'features_used' entry of a model's result: the spread, the order
\* size to depth ratio and (slippage model) the volume imbalance that went
\* into the prediction; the results of the except branches have none.
FeaturesUsed(spread_percentage, order_size_to_depth_ratio, volume_imbalance) ==
    [present |-> TRUE, spread_percentage |-> spread_percentage,
     order_size_to_depth_ratio |-> order_size_to_depth_ratio,
     volume_imbalance |-> volume_imbalance]
NoFeaturesUsed ==
    [present |-> FALSE, spread_percentage |-> Whole(0),
     order_size_to_depth_ratio |-> Whole(0), volume_imbalance |-> Whole(0)]

\* MakerTakerModel.default_coefficients
mt_default_coefficients ==
    [intercept |-> Whole(2), order_type_market |-> Whole(2),
     spread_percentage |-> Frac(1, 2), order_size_to_depth_ratio |-> Frac(8, 10),
     volatility |-> Frac(3, 10)]

\* MakerTakerModel.predict_proportion up to the probability of the model
\* (lines 82-121) and its except branch (lines 146-155).  The try block
\* fails on a depth that is None (line 86), quantity_usd / avg_depth (line
\* 90), order_type.lower() (line 96) or the linear combination or the
\* scaler with a spread or a volatility that is no number (lines 109-121);
\* the handler calls order_type.lower() again (line 150).
ModelProportion(features, quantity_usd, order_type, volatility, lib) ==
    LET spread_percentage == DictGet(features, "spread_percentage", Number(Frac(1, 100)))
        bid_depth == DictGet(features, "bid_depth_5pct", Number(Whole(1)))
        ask_depth == DictGet(features, "ask_depth_5pct", Number(Whole(1)))
        depth_ok == bid_depth.tag = "float" /\ ask_depth.tag = "float"
        avg_depth == FracDiv(FracAdd(FracOf(bid_depth), FracOf(ask_depth)), Whole(2))
        avg_positive == depth_ok /\ avg_depth.num > 0
        try_fails == \/ ~depth_ok
                     \/ (avg_positive /\ ~IsNumber(quantity_usd))
                     \/ ~IsStr(order_type)
                     \/ spread_percentage.tag = "None"
                     \/ ~IsNumber(volatility)
    IN IF ~try_fails
       THEN LET ratio == IF avg_positive
                         THEN FracMin(FracDiv(Whole(quantity_usd.n), avg_depth), Whole(1))
                         ELSE Whole(1)
                order_type_market == IF order_type = "market" THEN Whole(1) ELSE Whole(0)
                c == mt_default_coefficients
                z == FracAdd(FracAdd(FracAdd(FracAdd(c.intercept,
                         FracMul(c.order_type_market, order_type_market)),
                         FracMul(c.spread_percentage, FracOf(spread_percentage))),
                         FracMul(c.order_size_to_depth_ratio, ratio)),
                         FracMul(c.volatility, Whole(volatility.n)))
                e == ExpOf(FracSub(Whole(0), z), lib)
                taker_probability ==
                    IF lib.is_fitted THEN lib.proba
                    ELSE IF e.inf THEN Whole(0)
                    ELSE FracDiv(Whole(1), FracAdd(Whole(1), FracOf(e)))
            IN [raised |-> FALSE, error |-> FALSE,
                maker |-> FracSub(Whole(1), taker_probability),
                taker |-> taker_probability,
                features_used |-> FeaturesUsed(FracOf(spread_percentage), ratio,
                                               Whole(0))]
       ELSE IF ~IsStr(order_type)
       THEN [raised |-> TRUE, error |-> FALSE, maker |-> Whole(0), taker |-> Whole(0),
             features_used |-> NoFeaturesUsed]
       ELSE IF order_type = "market"
       THEN [raised |-> FALSE, error |-> TRUE, maker |-> Whole(0), taker |-> Whole(1),
             features_used |-> NoFeaturesUsed]
       ELSE [raised |-> FALSE, error |-> TRUE, maker |-> Frac(8, 10), taker |-> Frac(2, 10),
             features_used |-> NoFeaturesUsed]

\* predict_proportion without the floor under a market order's probability.
PredictProportionNoFloor(features, quantity_usd, order_type, volatility, lib) ==
    ModelProportion(features, quantity_usd, order_type, volatility, lib)

\* MakerTakerModel.predict_proportion: a market order's taker probability
\* is raised to 0.9 (lines 123-131), the maker probability is what is left.
PredictProportion(features, quantity_usd, order_type, volatility, lib) ==
    LET r == ModelProportion(features, quantity_usd, order_type, volatility, lib)
    IN IF ~r.raised /\ ~r.error /\ order_type = "market"
       THEN LET taker_probability == FracMax(r.taker, Frac(9, 10))
            IN [r EXCEPT !.taker = taker_probability,
                         !.maker = FracSub(Whole(1), taker_probability)]
       ELSE r

\* FeeModel.OKX_FEE_TIERS and FeeModel.exchange_fee_tiers
OKX_FEE_TIERS ==
    [t \in {"Tier 1", "Tier 2", "Tier 3", "Tier 4", "Tier 5"} |->
        CASE t = "Tier 1" -> [maker |-> Frac(8, 10000), taker |-> Frac(10, 10000)]
          [] t = "Tier 2" -> [maker |-> Frac(6, 10000), taker |-> Frac(8, 10000)]
          [] t = "Tier 3" -> [maker |-> Frac(4, 10000), taker |-> Frac(6, 10000)]
          [] t = "Tier 4" -> [maker |-> Frac(2, 10000), taker |-> Frac(4, 10000)]
          [] t = "Tier 5" -> [maker |-> Frac(0, 10000), taker |-> Frac(2, 10000)]]
exchange_fee_tiers == [e \in {"OKX"} |-> OKX_FEE_TIERS]

\* A maker_taker_proportion argument: None, or a dict with both entries.
NoSplit == [given |-> FALSE, maker |-> Whole(0), taker |-> Whole(0)]
Split(maker, taker) == [given |-> TRUE, maker |-> maker, taker |-> taker]

NoFee == [raised |-> TRUE, error |-> FALSE, total_fee_usd |-> Whole(0),
          maker_fee_usd |-> Whole(0), taker_fee_usd |-> Whole(0),
          maker_fee_rate |-> Whole(0), taker_fee_rate |-> Whole(0),
          maker_proportion |-> Whole(0), taker_proportion |-> Whole(0)]

\* FeeModel.calculate_fees.  There is no try block: order_type.lower()
\* (line 77) raises AttributeError on an order type that is no str, and
\* quantity_usd * proportion * rate (lines 96-97) raises TypeError on a
\* quantity that is no number.
CalculateFees(exchange, fee_tier, order_type, quantity_usd, maker_taker_proportion) ==
    LET exchange_tiers == IF exchange \in DOMAIN exchange_fee_tiers
                          THEN exchange_fee_tiers[exchange]
                          ELSE exchange_fee_tiers["OKX"]
        fee_rates == IF fee_tier \in DOMAIN exchange_tiers THEN exchange_tiers[fee_tier]
                     ELSE exchange_tiers["Tier 1"]
        total_proportion == FracAdd(maker_taker_proportion.maker,
                                    maker_taker_proportion.taker)
        maker_proportion ==
            IF ~maker_taker_proportion.given
            THEN (IF order_type = "market" THEN Whole(0) ELSE Frac(1, 2))
            ELSE IF total_proportion.num > 0
            THEN FracDiv(maker_taker_proportion.maker, total_proportion)
            ELSE maker_taker_proportion.maker
        taker_proportion ==
            IF ~maker_taker_proportion.given
            THEN (IF order_type = "market" THEN Whole(1) ELSE Frac(1, 2))
            ELSE IF total_proportion.num > 0
            THEN FracDiv(maker_taker_proportion.taker, total_proportion)
            ELSE maker_taker_proportion.taker
    IN IF ~maker_taker_proportion.given /\ ~IsStr(order_type) THEN NoFee
       ELSE IF ~IsNumber(quantity_usd) THEN NoFee
       ELSE LET maker_fee_usd == FracMul(FracMul(Whole(quantity_usd.n), maker_proportion),
                                         fee_rates.maker)
                taker_fee_usd == FracMul(FracMul(Whole(quantity_usd.n), taker_proportion),
                                         fee_rates.taker)
            IN [raised |-> FALSE, error |-> FALSE,
                total_fee_usd |-> FracAdd(maker_fee_usd, taker_fee_usd),
                maker_fee_usd |-> maker_fee_usd, taker_fee_usd |-> taker_fee_usd,
                maker_fee_rate |-> fee_rates.maker, taker_fee_rate |-> fee_rates.taker,
                maker_proportion |-> maker_proportion,
                taker_proportion |-> taker_proportion]

\* SlippageModel.default_coefficients
slippage_default_coefficients ==
    [intercept |-> Frac(1, 100), spread_percentage |-> Frac(1, 2),
     order_size_to_depth_ratio |-> Frac(8, 10), volume_imbalance |-> Frac(-2, 10),
     volatility |-> Frac(3, 10)]

\* SlippageModel.predict_slippage.  The try block fails on a feature that
\* is None, on a quantity that is no number (lines 113, 147) and on a
\* volatility that is no number (lines 129-140); the handler computes
\* quantity_usd * 0.0005.
PredictSlippage(features, quantity_usd, is_buy, volatility, lib) ==
    LET spread_percentage == DictGet(features, "spread_percentage", Number(Frac(1, 100)))
        depth == DictGet(features, IF is_buy THEN "ask_depth_5pct" ELSE "bid_depth_5pct",
                         Number(Whole(1)))
        imbalance == DictGet(features, "volume_imbalance", Number(Whole(0)))
        try_fails == \/ spread_percentage.tag = "None" \/ depth.tag = "None"
                     \/ imbalance.tag = "None"
                     \/ ~IsNumber(quantity_usd) \/ ~IsNumber(volatility)
    IN IF ~try_fails
       THEN LET volume_imbalance == IF is_buy THEN FracOf(imbalance)
                                    ELSE FracSub(Whole(0), FracOf(imbalance))
                ratio == IF depth.num > 0
                         THEN FracMin(FracDiv(Whole(quantity_usd.n), FracOf(depth)), Whole(1))
                         ELSE Whole(1)
                c == slippage_default_coefficients
                predicted ==
                    IF lib.is_fitted THEN lib.predicted
                    ELSE FracAdd(FracAdd(FracAdd(FracAdd(c.intercept,
                             FracMul(c.spread_percentage, FracOf(spread_percentage))),
                             FracMul(c.order_size_to_depth_ratio, ratio)),
                             FracMul(c.volume_imbalance, volume_imbalance)),
                             FracMul(c.volatility, Whole(volatility.n)))
                slippage_percentage == FracMax(Whole(0), predicted)
            IN [raised |-> FALSE, error |-> FALSE,
                slippage_percentage |-> slippage_percentage,
                slippage_usd |-> FracDiv(FracMul(Whole(quantity_usd.n), slippage_percentage),
                                         Whole(100)),
                features_used |-> FeaturesUsed(FracOf(spread_percentage), ratio,
                                               volume_imbalance)]
       ELSE IF ~IsNumber(quantity_usd)
       THEN [raised |-> TRUE, error |-> FALSE, slippage_percentage |-> Whole(0),
             slippage_usd |-> Whole(0), features_used |-> NoFeaturesUsed]
       ELSE [raised |-> FALSE, error |-> TRUE, slippage_percentage |-> Frac(5, 100),
             slippage_usd |-> FracMul(Whole(quantity_usd.n), Frac(5, 10000)),
             features_used |-> NoFeaturesUsed]

\* AlmgrenChrissModel.__init__
eta == Frac(1, 10)
gamma == Frac(1, 10)
quantity_scaling == Whole(1)

\* AlmgrenChrissModel.calculate_market_impact with the default time
\* horizon of one second.  The try block fails on volatility * sqrt(..)
\* (line 67) or on the quantity conversion (lines 72/75); the handler
\* computes quantity_usd * 0.0002.  volatility_scaled and what is computed
\* from it are multiples of the square root.
CalculateMarketImpact(quantity_usd, volatility, mid_price) ==
    LET try_fails == ~IsNumber(volatility) \/ ~IsNumber(quantity_usd)
        priced == mid_price.tag = "float" /\ mid_price.num > 0
    IN IF ~try_fails
       THEN LET volatility_scaled == Whole(volatility.n)
                quantity_asset == IF priced
                                  THEN FracDiv(Whole(quantity_usd.n), FracOf(mid_price))
                                  ELSE FracMul(Whole(quantity_usd.n), quantity_scaling)
                abs_quantity == FracAbs(quantity_asset)
                temporary_impact_factor ==
                    FracMul(FracMul(volatility_scaled, abs_quantity), eta)
                permanent_impact_factor ==
                    FracMul(FracMul(gamma, volatility_scaled), abs_quantity)
                temporary_impact_usd ==
                    IF priced THEN FracMul(temporary_impact_factor, FracOf(mid_price))
                    ELSE temporary_impact_factor
                permanent_impact_usd ==
                    IF priced THEN FracMul(permanent_impact_factor, FracOf(mid_price))
                    ELSE permanent_impact_factor
            IN [raised |-> FALSE, error |-> FALSE,
                total_impact_usd |->
                    [rat |-> Whole(0),
                     surd |-> FracAdd(temporary_impact_usd, permanent_impact_usd)]]
       ELSE IF ~IsNumber(quantity_usd)
       THEN [raised |-> TRUE, error |-> FALSE, total_impact_usd |-> Money(Whole(0))]
       ELSE [raised |-> FALSE, error |-> TRUE,
             total_impact_usd |-> Money(FracMul(Whole(quantity_usd.n), Frac(2, 10000)))]

(***************************************************************************)
(* SimulationEngine.process_tick                                           *)
(***************************************************************************)
\* The keys of the output dict of a successful tick (lines 165-183) and of
\* the error output (lines 195-200).
SuccessKeys == {"simulationId", "timestampUTC", "expectedSlippageUSD",
                "expectedFeesUSD", "expectedMarketImpactUSD", "netCostUSD",
                "makerTakerProportion", "internalLatencyMs", "performance"}
ErrorKeys == {"simulationId", "timestampUTC", "status", "error"}

NoOutput == [keys |-> {}, status |-> "", timestampUTC |-> NoneVal, error |-> "",
             slippage |-> Money(Whole(0)), fees |-> Money(Whole(0)),
             impact |-> Money(Whole(0)), net |-> Money(Whole(0)),
             maker |-> Whole(0), taker |-> Whole(0)]

\* How each model call of a tick ended, the calls of the tick on the book
\* and the models in the order they were made, the maker/taker dict
\* calculate_fees was given, and the features the maker/taker and the
\* slippage model report to have used.
NoCalls == [maker_taker |-> "not called", fee |-> "not called",
            slippage |-> "not called", impact |-> "not called",
            order |-> <<>>, split |-> NoSplit,
            maker_taker_used |-> NoFeaturesUsed, slippage_used |-> NoFeaturesUsed]

CallStatus(r) == IF r.raised THEN "raised" ELSE IF r.error THEN "fallback" ELSE "ok"

\* A call that is recorded twice.
CalledTwice(model_calls, name, r) ==
    [model_calls EXCEPT ![name] = CallStatus(r), !.order = @ \o <<name, name>>]

\* model_calls after the call of the model called name gave r.
Called(model_calls, name, r) ==
    [model_calls EXCEPT ![name] = CallStatus(r), !.order = Append(@, name)]

\* tick_data.get('timestamp'): None when the key is absent.
TickTimestamp(tick_data) ==
    IF tick_data.timestamp.tag = "absent" THEN NoneVal ELSE tick_data.timestamp

\* The except branch of process_tick (lines 191-206) for the exception
\* exc raised at step failed_at.  "tick_data.get(..) if tick_data else
\* None" raises AttributeError again when tick_data is truthy and no dict.
ErrorPath(book, tick_data, failed_at, exc, model_calls) ==
    IF tick_data.kind = "nondict"
    THEN [raised |-> TRUE, failed_at |-> failed_at, book |-> book, success |-> FALSE,
          calls |-> model_calls, output |-> NoOutput]
    ELSE [raised |-> FALSE, failed_at |-> failed_at, book |-> book, success |-> FALSE,
          calls |-> model_calls,
          output |-> [NoOutput EXCEPT
                        !.keys = ErrorKeys, !.status = "error", !.error = exc,
                        !.timestampUTC = IF tick_data.kind = "dict"
                                         THEN TickTimestamp(tick_data)
                                         ELSE NoneVal]]

\* process_tick is written as its stages, each handed what the stages
\* before it computed; any exception goes to the except branch.

\* The output of a tick whose net cost leaves the market impact out.
TickOutputNoImpact(book, tick_data, model_calls, mt, fee, slip, imp) ==
    [raised |-> FALSE, failed_at |-> "none", book |-> book,
     success |-> TRUE, calls |-> model_calls,
     output |-> [keys |-> SuccessKeys, status |-> "",
                 timestampUTC |-> TickTimestamp(tick_data),
                 error |-> "",
                 slippage |-> Money(slip.slippage_usd),
                 fees |-> Money(fee.total_fee_usd),
                 impact |-> imp.total_impact_usd,
                 net |-> MoneyAdd(Money(slip.slippage_usd), Money(fee.total_fee_usd)),
                 maker |-> mt.maker, taker |-> mt.taker]]

\* Lines 147-189: the net cost and the output dict after the four model
\* calls.
TickOutput(book, tick_data, model_calls, mt, fee, slip, imp) ==
    LET net_cost_usd == MoneyAdd(MoneyAdd(Money(slip.slippage_usd),
                                          Money(fee.total_fee_usd)),
                                 imp.total_impact_usd)
    IN [raised |-> FALSE, failed_at |-> "none", book |-> book,
        success |-> TRUE, calls |-> model_calls,
        output |-> [keys |-> SuccessKeys, status |-> "",
                    timestampUTC |-> TickTimestamp(tick_data),
                    error |-> "",
                    slippage |-> Money(slip.slippage_usd),
                    fees |-> Money(fee.total_fee_usd),
                    impact |-> imp.total_impact_usd,
                    net |-> net_cost_usd,
                    maker |-> mt.maker, taker |-> mt.taker]]

\* Lines 139-145: calculate_market_impact.
TickImpact(params, book, tick_data, features, model_calls, mt, fee, slip) ==
    IF slip.raised
    THEN ErrorPath(book, tick_data, "slippage", "TypeError", model_calls)
    ELSE LET imp == CalculateMarketImpact(params.quantityUSD, params.volatility,
                                          DictGet(features, "mid_price", NoNumber))
             called == Called(model_calls, "impact", imp)
         IN IF imp.raised
            THEN ErrorPath(book, tick_data, "impact", "TypeError", called)
            ELSE TickOutput(book, tick_data, called, mt, fee, slip, imp)

\* Lines 131-137: predict_slippage.
TickSlippage(params, book, tick_data, features, model_calls, mt, fee, lib) ==
    IF fee.raised
    THEN ErrorPath(book, tick_data, "fee", "TypeError", model_calls)
    ELSE LET slip == PredictSlippage(features, params.quantityUSD, TRUE,
                                     params.volatility, lib)
         IN TickImpact(params, book, tick_data, features,
                       [Called(model_calls, "slippage", slip)
                          EXCEPT !.slippage_used = slip.features_used],
                       mt, fee, slip)

\* Lines 122-129: calculate_fees, given the dict predict_proportion
\* returned.
TickFees(params, book, tick_data, features, model_calls, mt, lib) ==
    IF mt.raised
    THEN ErrorPath(book, tick_data, "maker_taker", "AttributeError", model_calls)
    ELSE LET maker_taker_proportion == Split(mt.maker, mt.taker)
             fee == CalculateFees(params.exchange, params.feeTier, params.orderType,
                                  params.quantityUSD, maker_taker_proportion)
         IN TickSlippage(params, book, tick_data, features,
                         [Called(model_calls, "fee", fee)
                            EXCEPT !.split = maker_taker_proportion],
                         mt, fee, lib)

\* Lines 115-120: predict_proportion.
TickModels(params, book, tick_data, features, model_calls, lib) ==
    LET mt == PredictProportion(features, params.quantityUSD, params.orderType,
                                params.volatility, lib)
    IN TickFees(params, book, tick_data, features,
                [Called(model_calls, "maker_taker", mt)
                   EXCEPT !.maker_taker_used = mt.features_used],
                mt, lib)

\* Lines 105-113: the feature set of the except branch around
\* get_order_book_features.
DefaultFeatures ==
    [k \in {"mid_price", "spread", "spread_percentage", "volume_imbalance",
             "bid_depth_5pct", "ask_depth_5pct"} |->
        IF k \in {"bid_depth_5pct", "ask_depth_5pct"}
        THEN Number(Whole(1000)) ELSE Number(Whole(0))]

\* Lines 101-113: the features handed to the models.  The default set is
\* assigned only when get_order_book_features raises, and that method
\* catches whatever goes wrong in it: what it returns is handed on as it
\* is, the empty dict included.
FeaturesForModels(book) ==
    LET extraction == [raised |-> FALSE, features |-> GetOrderBookFeatures(book)]
    IN IF extraction.raised THEN DefaultFeatures ELSE extraction.features

\* Lines 90-113: the outcome of order_book.update, then the one call of
\* get_order_book_features.
TickAfterUpdate(params, tick_data, upd, lib) ==
    IF upd.raised
    THEN ErrorPath(upd.book, tick_data, "update", "TypeError",
                   [NoCalls EXCEPT !.order = <<"update">>])
    ELSE TickModels(params, upd.book, tick_data, FeaturesForModels(upd.book),
                    [NoCalls EXCEPT !.order = <<"update", "features">>], lib)

\* process_tick(tick_data) on an engine with these parameters and this
\* book, the libraries returning lib: the book after the call, whether the
\* call raised, its result, and how each model call ended.
ProcessTickResult(params, book, tick_data, lib) ==
    IF tick_data.kind # "dict"
    THEN ErrorPath(book, tick_data, "tick_data", "AttributeError", NoCalls)
    ELSE TickAfterUpdate(params, tick_data,
            BookUpdate(book, [timestamp |-> IF tick_data.timestamp.tag = "absent"
                                            THEN TextStr ELSE tick_data.timestamp,
                              asks |-> tick_data.asks, bids |-> tick_data.bids]),
            lib)

(***************************************************************************)
(* Inputs of the engine                                                    *)
(***************************************************************************)
Level(price, quantity) == [seq |-> TRUE, toks |-> <<price, quantity>>]
ScalarLevel == [seq |-> FALSE, toks |-> <<>>]    \* e.g. the number 5

\* Two well-formed levels, one with an unparsable price, one that is no list.
EngineLevels == {Level(NumStr(1), NumStr(1)), Level(NumStr(2), NumStr(1)),
                 Level(TextStr, NumStr(1)), ScalarLevel}

SeqsUpTo(S, n) == UNION {[1..k -> S] : k \in 0..n}

\* The 'asks' / 'bids' entry of a tick: a list of levels, or a value that
\* is truthy and cannot be iterated.
SideInputs == {[iter |-> TRUE, items |-> s] : s \in SeqsUpTo(EngineLevels, MaxLevels)}
              \cup {[iter |-> FALSE, items |-> <<>>]}

AbsentTs == [tag |-> "absent", n |-> 0]
Timestamps == {AbsentTs, NumStr(7)}

\* tick_data: None, a falsy non-dict ('' or []), a truthy non-dict (a raw
\* message string), or a dict.
TickInputs ==
    {[kind |-> k, timestamp |-> AbsentTs, asks |-> [iter |-> TRUE, items |-> <<>>],
      bids |-> [iter |-> TRUE, items |-> <<>>]] : k \in {"none", "falsy", "nondict"}}
    \cup {[kind |-> "dict", timestamp |-> ts, asks |-> a, bids |-> b] :
             ts \in Timestamps, a \in SideInputs, b \in SideInputs}

GoodParams == [exchange |-> "OKX", feeTier |-> "Tier 1", orderType |-> "market",
               quantityUSD |-> Float(100), volatility |-> Float(2)]

\* The parameter dicts a caller may construct the engine with: well-typed
\* ones, and ones with a value of the wrong type.
ParamInputs == {GoodParams,
                [GoodParams EXCEPT !.orderType = "limit"],
                [GoodParams EXCEPT !.volatility = NoneVal],
                [GoodParams EXCEPT !.quantityUSD = NumStr(100)],
                [GoodParams EXCEPT !.orderType = "None"]}

NoTick == [kind |-> "", timestamp |-> AbsentTs, raised |-> FALSE, success |-> FALSE,
           delivered |-> <<>>,
           failed_at |-> "", calls |-> NoCalls, output |-> NoOutput]

\* ---- direct calls of update() on the two book classes --------------------
\* Levels as a caller may pass them: well-formed ones (two at the same
\* price, one at price zero), a zero and a negative quantity, a negative
\* price, a price and a quantity that are no numbers, a list of one item
\* and a bare number.
GoodLevels == {Level(NumStr(1), NumStr(1)), Level(NumStr(2), NumStr(1)),
               Level(NumStr(3), NumStr(2))}
ShortLevel == [seq |-> TRUE, toks |-> <<NumStr(1)>>]
BookLevels == GoodLevels \cup
              {Level(NumStr(2), NumStr(2)), Level(NumStr(0), NumStr(1)),
               Level(NumStr(2), NumStr(0)),
               Level(NumStr(3), NumStr(-1)), Level(NumStr(-1), NumStr(1)),
               Level(TextStr, NumStr(1)), Level(NumStr(1), TextStr),
               ShortLevel, ScalarLevel}

ListOf(items) == [iter |-> TRUE, items |-> items]
EmptyList == ListOf(<<>>)      \* also what data.get(side, []) gives for no entry

\* One side of the data: up to MaxBookLevels levels of any kind, or one
\* level more than the book keeps, all well-formed, with or without a bare
\* number after them.
BookSides == {ListOf(l) : l \in SeqsUpTo(BookLevels, MaxBookLevels)}
             \cup {ListOf(l) : l \in [1..(BookDepth + 1) -> GoodLevels]}
             \cup {ListOf(Append(l, ScalarLevel)) :
                      l \in [1..(BookDepth + 1) -> GoodLevels]}
PairSides == {ListOf(l) : l \in SeqsUpTo(GoodLevels, MaxBookLevels)}
             \cup {ListOf(<<ScalarLevel>>), ListOf(<<Level(NumStr(0), NumStr(1))>>)}

\* The data of a call: one side alone, or both sides with well-formed
\* levels, a level at price zero or a bare number.
BookData ==
    {[timestamp |-> NumStr(7), asks |-> a, bids |-> EmptyList] : a \in BookSides}
    \cup {[timestamp |-> NumStr(7), asks |-> EmptyList, bids |-> b] : b \in BookSides}
    \cup {[timestamp |-> NumStr(7), asks |-> a, bids |-> b] :
             a \in PairSides, b \in PairSides}

NoUpdate == [n |-> 0, target |-> "", data |-> [timestamp |-> NoneVal,
                                               asks |-> EmptyList, bids |-> EmptyList],
             before |-> NewOrderBook(BookDepth), raised |-> FALSE]

NoQuery == [op |-> "", target |-> "", arg |-> 0, is_buy |-> FALSE, result |-> NoneVal]

\* max_depth of the engine's book (SimulationEngine.__init__).
engine_max_depth == 20

InitEngine ==
    /\ parameters \in ParamInputs
    /\ order_book = NewOrderBook(engine_max_depth)
    /\ tick_count = 0
    /\ processing_times = 0
    /\ last_tick = NoTick
    /\ orderbook = NewL2Book
    /\ last_update = NoUpdate
    /\ last_query = NoQuery

\* The calls of output_callback that process_tick makes (lines 185-187 and
\* 202-204): one, with the dict it returns; none when it raises before.
OutputCallbacks(r) == IF r.raised THEN <<>> ELSE <<r.output>>

\* What one call of process_tick, with result r, does to the engine;
\* delivered are the results that reached the output sink because of it.
EngineTickFrom(tick_data, r, delivered) ==
    /\ order_book' = r.book
    /\ tick_count' = tick_count + 1
    /\ processing_times' = IF r.success THEN processing_times + 1
                           ELSE processing_times
    /\ last_tick' = [kind |-> tick_data.kind, timestamp |-> tick_data.timestamp,
                     raised |-> r.raised, success |-> r.success,
                     delivered |-> delivered,
                     failed_at |-> r.failed_at, calls |-> r.calls,
                     output |-> r.output]
    /\ UNCHANGED parameters
    /\ UNCHANGED book_vars

\* process_tick called by an owner that does nothing with the result.
EngineTick(tick_data, r) == EngineTickFrom(tick_data, r, OutputCallbacks(r))

\* One call of process_tick.
ProcessTick(tick_data, lib) ==
    /\ tick_count < MaxTicks
    /\ EngineTick(tick_data, ProcessTickResult(parameters, order_book, tick_data, lib))
    /\ UNCHANGED conn_vars

\* The engine never fits its models.
EngineLibs == Libs({FALSE}, {Whole(0)}, {Whole(0)})

NextEngine == \E tick_data \in TickInputs, lib \in EngineLibs :
                 ProcessTick(tick_data, lib)

\* A long run: the same few ticks over and over (a tick that is priced, a
\* tick that fails), so that the samples the engine keeps can be counted.
SteadyTicks ==
    {t \in TickInputs :
        \/ t.kind = "none"
        \/ /\ t.kind = "dict" /\ t.timestamp = NumStr(7)
           /\ t.asks = [iter |-> TRUE, items |-> <<Level(NumStr(2), NumStr(1))>>]
           /\ t.bids = [iter |-> TRUE, items |-> <<Level(NumStr(1), NumStr(1))>>]}

SteadyTick(tick_data) ==
    /\ tick_count < MaxSamples
    /\ EngineTick(tick_data, ProcessTickResult(parameters, order_book, tick_data, NoLib))
    /\ UNCHANGED conn_vars

NextLatency == \E tick_data \in SteadyTicks : SteadyTick(tick_data)

\* window_size of PerformanceMonitor (its default); the engine's own list
\* of samples has none.
window_size == 100

\* update(data) called on the OrderBook of order_book.py.
UpdateCall(data) ==
    /\ last_update.n < MaxUpdates
    /\ LET r == BookUpdate(order_book, data) IN
         /\ order_book' = r.book
         /\ last_update' = [n |-> last_update.n + 1, target |-> "order_book",
                            data |-> data, before |-> order_book,
                            raised |-> r.raised]
    /\ UNCHANGED <<parameters, tick_count, processing_times, last_tick, orderbook,
                   last_query>>
    /\ UNCHANGED conn_vars

\* update(data) called on the OrderBook of orderbook.py.
L2UpdateCall(data) ==
    /\ last_update.n < MaxUpdates
    /\ LET r == L2Update(orderbook, data) IN
         /\ orderbook' = r.book
         /\ last_update' = [n |-> last_update.n + 1, target |-> "orderbook",
                            data |-> data, before |-> orderbook,
                            raised |-> r.raised]
    /\ UNCHANGED <<parameters, order_book, tick_count, processing_times, last_tick,
                   last_query>>
    /\ UNCHANGED conn_vars

NextBook ==
    \/ \E data \in BookData : UpdateCall(data)
    \/ \E data \in BookData : L2UpdateCall(data)

\* The two book classes on their own, the first with a small max_depth.
InitBooks ==
    /\ parameters = GoodParams
    /\ order_book = NewOrderBook(BookDepth)
    /\ tick_count = 0
    /\ processing_times = 0
    /\ last_tick = NoTick
    /\ orderbook = NewL2Book
    /\ last_update = NoUpdate
    /\ last_query = NoQuery

\* The books that are asked: each side of the one snapshot they were given
\* is a list of up to MaxBookLevels levels with a price of 1, 2, 3, 0 or -1,
\* or one of two lists of three levels.
QueryLevels == GoodLevels \cup {Level(NumStr(2), NumStr(2)),
                                Level(NumStr(0), NumStr(1)),
                                Level(NumStr(-1), NumStr(1))}
QuerySides == {ListOf(l) : l \in SeqsUpTo(QueryLevels, MaxBookLevels)}
              \cup {ListOf(<<Level(NumStr(1), NumStr(1)), Level(NumStr(2), NumStr(1)),
                             Level(NumStr(3), NumStr(2))>>),
                    ListOf(<<Level(NumStr(1), NumStr(2)), Level(NumStr(2), NumStr(2)),
                             Level(NumStr(3), NumStr(1))>>)}
QueryData == {[timestamp |-> NumStr(7), asks |-> a, bids |-> b] :
                 a \in QuerySides, b \in QuerySides}

\* The sizes get_order_book_features asks _estimate_price_impact about.
ImpactSizes == {1, 5, 10}

\* Both books as constructed, or both after one update with the same data.
InitQueries ==
    /\ parameters = GoodParams
    /\ tick_count = 0
    /\ processing_times = 0
    /\ last_tick = NoTick
    /\ last_update = NoUpdate
    /\ last_query = NoQuery
    /\ \/ /\ order_book = NewOrderBook(engine_max_depth)
          /\ orderbook = NewL2Book
       \/ \E data \in QueryData :
             /\ order_book = BookUpdate(NewOrderBook(engine_max_depth), data).book
             /\ orderbook = L2Update(NewL2Book, data).book

\* A call of a method that reads a book and changes nothing.
Query(op, target, arg, is_buy, result) ==
    /\ last_query' = [op |-> op, target |-> target, arg |-> arg, is_buy |-> is_buy,
                      result |-> result]
    /\ UNCHANGED <<parameters, order_book, tick_count, processing_times, last_tick,
                   orderbook, last_update>>
    /\ UNCHANGED conn_vars

\* orderbook.calculate_market_order_cost(quantity_usd, is_buy)
MarketOrderCostCall(quantity_usd, is_buy) ==
    Query("calculate_market_order_cost", "orderbook", quantity_usd, is_buy,
          calculate_market_order_cost(orderbook, quantity_usd, is_buy))

\* order_book._estimate_price_impact(size, is_buy)
PriceImpactCall(size, is_buy) ==
    Query("_estimate_price_impact", "order_book", size, is_buy,
          estimate_price_impact(order_book, size, is_buy))

\* order_book.get_order_book_features()
FeaturesCall ==
    Query("get_order_book_features", "order_book", 0, FALSE,
          GetOrderBookFeatures(order_book))

\* orderbook.get_order_book_features()
L2FeaturesCall ==
    Query("get_order_book_features", "orderbook", 0, FALSE, L2Features(orderbook))

NextQuery ==
    \/ \E quantity_usd \in 0..MaxNotional, is_buy \in BOOLEAN :
          MarketOrderCostCall(quantity_usd, is_buy)
    \/ \E size \in ImpactSizes, is_buy \in BOOLEAN : PriceImpactCall(size, is_buy)
    \/ FeaturesCall
    \/ L2FeaturesCall

\* ---- direct calls of the cost models --------------------------------------
\* Feature dicts a caller may pass: none of the entries the models read,
\* the engine's default set, a spread far below zero, a spread of None,
\* no depth on either side, a depth of None.
FeatureInputs ==
    {[k \in {} |-> NoNumber],
     DefaultFeatures,
     [k \in {"spread_percentage"} |-> Number(Whole(-10))],
     [k \in {"spread_percentage"} |-> NoNumber],
     [k \in {"bid_depth_5pct", "ask_depth_5pct"} |-> Number(Whole(0))],
     [k \in {"bid_depth_5pct", "ask_depth_5pct"} |->
         IF k = "bid_depth_5pct" THEN NoNumber ELSE Number(Whole(1))]}
QuantityInputs == {Float(0), Float(100), NumStr(100), NoneVal}
VolatilityInputs == {Float(0), Float(2), Float(-20), NoneVal}
OrderTypeInputs == {"market", "limit", "None"}      \* "None": no str
ExchangeInputs == {"OKX", "UnknownExchange"}
FeeTierInputs == {"Tier 1", "Tier 3", "Tier 9"}
SplitInputs == {NoSplit, Split(Whole(0), Whole(1)), Split(Frac(1, 10), Frac(9, 10)),
                Split(Frac(8, 10), Frac(2, 10)), Split(Whole(1), Whole(1)),
                Split(Whole(0), Whole(0))}
ModelLibs == Libs(BOOLEAN, {Whole(0), Frac(1, 2), Frac(19, 20), Whole(1)}, {Whole(0)})

\* A call of a cost model changes nothing in the model object, so a
\* behaviour makes one call.

\* maker_taker_model.predict_proportion(features, quantity_usd, order_type,
\* volatility) on a model that is fitted or not
PredictProportionCall(features, quantity_usd, order_type, volatility, lib) ==
    /\ last_query = NoQuery
    /\ Query("predict_proportion", "maker_taker_model",
          [order_book_features |-> features, quantity_usd |-> quantity_usd,
           order_type |-> order_type, volatility |-> volatility, lib |-> lib],
          FALSE,
          PredictProportion(features, quantity_usd, order_type, volatility, lib))

\* fee_model.calculate_fees(exchange, fee_tier, order_type, quantity_usd,
\* maker_taker_proportion)
CalculateFeesCall(exchange, fee_tier, order_type, quantity_usd, maker_taker_proportion) ==
    /\ last_query = NoQuery
    /\ Query("calculate_fees", "fee_model",
          [exchange |-> exchange, fee_tier |-> fee_tier, order_type |-> order_type,
           quantity_usd |-> quantity_usd,
           maker_taker_proportion |-> maker_taker_proportion],
          FALSE,
          CalculateFees(exchange, fee_tier, order_type, quantity_usd,
                        maker_taker_proportion))

NextCost ==
    \/ \E features \in FeatureInputs, quantity_usd \in QuantityInputs,
          order_type \in OrderTypeInputs, volatility \in VolatilityInputs,
          lib \in ModelLibs :
          PredictProportionCall(features, quantity_usd, order_type, volatility, lib)
    \/ \E exchange \in ExchangeInputs, fee_tier \in FeeTierInputs,
          order_type \in OrderTypeInputs, quantity_usd \in QuantityInputs,
          maker_taker_proportion \in SplitInputs :
          CalculateFeesCall(exchange, fee_tier, order_type, quantity_usd,
                            maker_taker_proportion)

(***************************************************************************)
(* WebSocketConnector (src/src/websocket/connector.py)                     *)
(*                                                                         *)
(* Every coroutine is cut at its await points; what runs between two       *)
(* awaits is one step.  A maintenance task t is                            *)
(*   pc         where _maintain_connection is suspended:                   *)
(*              "start" (created, not yet run), "connecting" (in           *)
(*              websockets.connect), "resub" (in _resubscribe),            *)
(*              "receiving" (in async for), "backoff" (in the sleep of a   *)
(*              handler), "done" (returned), "cancelled"                   *)
(*   ws         its connection: "none", "open", "closed_ok" (closed with   *)
(*              a close handshake), "closed_err" (lost)                    *)
(*   ping       its _ping_loop task: "none", "running", "stopped"          *)
(*   cancelling cancel() was called and the CancelledError is pending      *)
(*   wait_time  the back-off it last computed                              *)
(*   batches/bi the batches of _resubscribe and the next one to send       *)
(*   tracked    the subscriptions when _resubscribe began                  *)
(*   sent       the args of the subscribe commands _resubscribe got onto   *)
(*              the transport since the connection opened                  *)
(*   active_at  when the connection opened or last delivered a message     *)
(*   forced     the heartbeat check has closed a connection of this task   *)
(***************************************************************************)
ping_interval == 20
reconnect_interval == 5
max_reconnect_attempts == 5
backoff_cap == 5
batch_size == 10

NewTask == [pc |-> "start", ws |-> "none", ping |-> "none", cancelling |-> FALSE,
            wait_time |-> 0, batches |-> <<>>, bi |-> 0, tracked |-> <<>>,
            sent |-> <<>>, active_at |-> 0, recv |-> 0, forced |-> FALSE]

TaskIds == 1..Len(tasks)
Finished(t) == tasks[t].pc \in {"done", "cancelled"}

\* self.websocket is not None and self.websocket.open
IsOpen(tt, w) == w # 0 /\ tt[w].ws = "open"

NoOp == [op |-> "", who |-> 0, arg |-> 0, wire |-> <<>>, ret |-> "none",
         raised |-> FALSE, callback |-> "none", note |-> ""]

InitConn ==
    /\ should_run = FALSE
    /\ reconnect_attempts = 0
    /\ websocket = 0
    /\ connection_task = 0
    /\ subscriptions = <<>>
    /\ last_ping_time = 0
    /\ last_pong_time = 0
    /\ tasks = <<>>
    /\ calls = <<>>
    /\ now = StartTime
    /\ failures = 0
    /\ last_op = NoOp

\* What the model remembers about a connection round is dropped when the
\* task leaves the "async with" block.
EndRound(task) == [task EXCEPT !.batches = <<>>, !.bi = 0, !.tracked = <<>>,
                               !.sent = <<>>, !.active_at = 0, !.recv = 0]

\* websocket.close(): a close handshake on an open connection.
CloseWs(tt, w) ==
    IF w # 0 /\ tt[w].ws = "open" THEN [tt EXCEPT ![w].ws = "closed_ok"] ELSE tt

\* send() without its try/except: a transport error goes up to the caller.
SendResultNoCatch(tt, w, message, transport_error) ==
    IF ~IsOpen(tt, w)
    THEN [ret |-> FALSE, raised |-> FALSE, wire |-> <<>>, tasks |-> tt]
    ELSE IF transport_error
    THEN [ret |-> FALSE, raised |-> TRUE, wire |-> <<>>,
          tasks |-> [tt EXCEPT ![w].ws = "closed_err"]]
    ELSE [ret |-> TRUE, raised |-> FALSE,
          wire |-> <<[op |-> message.op, args |-> message.args, conn |-> w]>>,
          tasks |-> tt]

\* WebSocketConnector.send(message) on connection state tt: the value it
\* returns, what reaches the transport and the connections afterwards.
\* transport_error: websocket.send raises.
SendResult(tt, w, message, transport_error) ==
    IF ~IsOpen(tt, w)
    THEN [ret |-> FALSE, raised |-> FALSE, wire |-> <<>>, tasks |-> tt]
    ELSE IF transport_error
    THEN [ret |-> FALSE, raised |-> FALSE, wire |-> <<>>,
          tasks |-> [tt EXCEPT ![w].ws = "closed_err"]]
    ELSE [ret |-> TRUE, raised |-> FALSE,
          wire |-> <<[op |-> message.op, args |-> message.args, conn |-> w]>>,
          tasks |-> tt]

BoolStr(b) == IF b THEN "True" ELSE "False"

\* The batches of _resubscribe: subscriptions[i:i+10] for i = 0, 10, ...
Batches(subs) ==
    [k \in 1..((Len(subs) + batch_size - 1) \div batch_size) |->
        SubSeq(subs, batch_size * (k - 1) + 1,
               IF batch_size * k < Len(subs) THEN batch_size * k ELSE Len(subs))]

\* wait_time = reconnect_interval * min(reconnect_attempts, 5)
WaitTime(attempts) ==
    reconnect_interval * (IF attempts < backoff_cap THEN attempts ELSE backoff_cap)

\* The except branch with the wait computed from the count as it was
\* before the increment.
FailureHandlerStaleCount(run, attempts) ==
    IF run
    THEN IF attempts + 1 > max_reconnect_attempts
         THEN [attempts |-> attempts + 1, pc |-> "done", wait_time |-> 0,
               note |-> "gave_up"]
         ELSE [attempts |-> attempts + 1, pc |-> "backoff",
               wait_time |-> WaitTime(attempts), note |-> "backoff"]
    ELSE [attempts |-> attempts, pc |-> "done", wait_time |-> 0, note |-> "stopped"]

\* The two except branches of _maintain_connection (lines 262-294), which
\* are alike: what becomes of reconnect_attempts and of the loop.
FailureHandler(run, attempts) ==
    IF run
    THEN IF attempts + 1 > max_reconnect_attempts
         THEN [attempts |-> attempts + 1, pc |-> "done", wait_time |-> 0,
               note |-> "gave_up"]
         ELSE [attempts |-> attempts + 1, pc |-> "backoff",
               wait_time |-> WaitTime(attempts + 1), note |-> "backoff"]
    ELSE [attempts |-> attempts, pc |-> "done", wait_time |-> 0, note |-> "stopped"]

\* The head of "while self.should_run": connect again, or leave the loop.
LoopTop(run) == IF run THEN "connecting" ELSE "done"

InFlight == Len(calls)
RemoveAt(seq, i) == SubSeq(seq, 1, i - 1) \o SubSeq(seq, i + 1, Len(seq))
InSeq(x, seq) == \E i \in 1..Len(seq) : seq[i] = x
RemoveFirst(seq, x) ==
    IF InSeq(x, seq)
    THEN RemoveAt(seq, CHOOSE i \in 1..Len(seq) :
                         seq[i] = x /\ \A j \in 1..(i - 1) : seq[j] # x)
    ELSE seq

----------------------------------------------------------------------------
\* connect(): the statements up to the first sleep.  If a connection is
\* already open it returns True at once.
ConnectCall(max_connects, max_calls) ==
    /\ Len(tasks) < max_connects
    /\ InFlight < max_calls
    /\ should_run' = TRUE
    /\ reconnect_attempts' = 0
    /\ failures' = 0
    /\ tasks' = Append(tasks, NewTask)
    /\ connection_task' = Len(tasks) + 1
    /\ IF IsOpen(tasks, websocket)
       THEN /\ calls' = calls
            /\ last_op' = [NoOp EXCEPT !.op = "connect", !.ret = "True"]
       ELSE /\ calls' = Append(calls, [op |-> "connect", pc |-> "wait", arg |-> 0])
            /\ last_op' = [NoOp EXCEPT !.op = "connect"]
    /\ UNCHANGED <<websocket, subscriptions, last_ping_time, last_pong_time, now>>
    /\ UNCHANGED engine_vars

\* connect() sees an open websocket in its polling loop.
ConnectReturnTrue(c) ==
    /\ calls[c].op = "connect"
    /\ IsOpen(tasks, websocket)
    /\ calls' = RemoveAt(calls, c)
    /\ last_op' = [NoOp EXCEPT !.op = "connect_return", !.ret = "True"]
    /\ UNCHANGED <<should_run, reconnect_attempts, websocket, connection_task,
                   subscriptions, last_ping_time, last_pong_time, tasks, now, failures>>
    /\ UNCHANGED engine_vars

\* connect() has polled ten times without seeing an open websocket.
ConnectReturnFalse(c) ==
    /\ calls[c].op = "connect"
    /\ ~IsOpen(tasks, websocket)
    /\ calls' = RemoveAt(calls, c)
    /\ last_op' = [NoOp EXCEPT !.op = "connect_return", !.ret = "False"]
    /\ UNCHANGED <<should_run, reconnect_attempts, websocket, connection_task,
                   subscriptions, last_ping_time, last_pong_time, tasks, now, failures>>
    /\ UNCHANGED engine_vars

\* disconnect() from "if self.websocket:" on, given the connections tt.
DisconnectTail(tt, rest_calls) ==
    IF websocket # 0
    THEN /\ tasks' = CloseWs(tt, websocket)
         /\ calls' = Append(rest_calls, [op |-> "disconnect", pc |-> "closing", arg |-> 0])
         /\ last_op' = [NoOp EXCEPT !.op = "disconnect"]
    ELSE /\ tasks' = tt
         /\ calls' = rest_calls
         /\ last_op' = [NoOp EXCEPT !.op = "disconnect_return", !.ret = "None"]

\* disconnect(): the statements up to its first await.
DisconnectCall(max_calls) ==
    /\ InFlight < max_calls
    /\ should_run' = FALSE
    /\ subscriptions' = <<>>
    /\ IF connection_task # 0 /\ ~Finished(connection_task)
       THEN /\ tasks' = [tasks EXCEPT ![connection_task].cancelling = TRUE]
            /\ calls' = Append(calls, [op |-> "disconnect", pc |-> "await_task",
                                       arg |-> connection_task])
            /\ last_op' = [NoOp EXCEPT !.op = "disconnect"]
       ELSE DisconnectTail(tasks, calls)
    /\ UNCHANGED <<reconnect_attempts, websocket, connection_task, last_ping_time,
                   last_pong_time, now, failures>>
    /\ UNCHANGED engine_vars

\* disconnect() resumes when the task it cancelled has ended.
DisconnectAfterTask(c) ==
    /\ calls[c].op = "disconnect" /\ calls[c].pc = "await_task"
    /\ Finished(calls[c].arg)
    /\ DisconnectTail(tasks, RemoveAt(calls, c))
    /\ UNCHANGED <<should_run, reconnect_attempts, websocket, connection_task,
                   subscriptions, last_ping_time, last_pong_time, now, failures>>
    /\ UNCHANGED engine_vars

\* disconnect() after "await self.websocket.close()": self.websocket = None.
DisconnectFinish(c) ==
    /\ calls[c].op = "disconnect" /\ calls[c].pc = "closing"
    /\ websocket' = 0
    /\ calls' = RemoveAt(calls, c)
    /\ last_op' = [NoOp EXCEPT !.op = "disconnect_return", !.ret = "None"]
    /\ UNCHANGED <<should_run, reconnect_attempts, connection_task, subscriptions,
                   last_ping_time, last_pong_time, tasks, now, failures>>
    /\ UNCHANGED engine_vars

\* send(message), called by the owner of the connector.
SendCall(transport_error, max_calls) ==
    /\ InFlight < max_calls
    /\ transport_error => IsOpen(tasks, websocket)
    /\ LET r == SendResult(tasks, websocket, [op |-> "message", args |-> <<>>],
                           transport_error) IN
         /\ tasks' = r.tasks
         /\ last_op' = [NoOp EXCEPT !.op = "send", !.wire = r.wire,
                                    !.ret = BoolStr(r.ret), !.raised = r.raised]
    /\ UNCHANGED <<should_run, reconnect_attempts, websocket, connection_task,
                   subscriptions, last_ping_time, last_pong_time, calls, now, failures>>
    /\ UNCHANGED engine_vars

\* subscribe() without the "already subscribed" check of line 139.
SubscribeCallNoCheck(pair, transport_error, max_calls) ==
    /\ InFlight < max_calls
    /\ transport_error => IsOpen(tasks, websocket)
    /\ LET r == SendResult(tasks, websocket, [op |-> "subscribe", args |-> <<pair>>],
                           transport_error) IN
       /\ tasks' = r.tasks
       /\ IF r.ret
          THEN /\ calls' = Append(calls, [op |-> "subscribe", pc |-> "sent",
                                          arg |-> pair])
               /\ last_op' = [NoOp EXCEPT !.op = "subscribe", !.arg = pair,
                                          !.wire = r.wire]
          ELSE /\ calls' = calls
               /\ last_op' = [NoOp EXCEPT !.op = "subscribe", !.arg = pair,
                                          !.ret = "False", !.raised = r.raised]
    /\ UNCHANGED <<should_run, reconnect_attempts, websocket, connection_task,
                   subscriptions, last_ping_time, last_pong_time, now, failures>>
    /\ UNCHANGED engine_vars

\* subscribe(channel, instrument_id) up to the await inside send; the pair
\* (channel, instId) is one value.
SubscribeCall(pair, transport_error, max_calls) ==
    /\ InFlight < max_calls
    /\ transport_error => (~InSeq(pair, subscriptions) /\ IsOpen(tasks, websocket))
    /\ IF InSeq(pair, subscriptions)
       THEN /\ tasks' = tasks
            /\ calls' = calls
            /\ last_op' = [NoOp EXCEPT !.op = "subscribe", !.arg = pair, !.ret = "True"]
       ELSE LET r == SendResult(tasks, websocket,
                                [op |-> "subscribe", args |-> <<pair>>],
                                transport_error) IN
            /\ tasks' = r.tasks
            /\ IF r.ret
               THEN /\ calls' = Append(calls, [op |-> "subscribe", pc |-> "sent",
                                               arg |-> pair])
                    /\ last_op' = [NoOp EXCEPT !.op = "subscribe", !.arg = pair,
                                               !.wire = r.wire]
               ELSE /\ calls' = calls
                    /\ last_op' = [NoOp EXCEPT !.op = "subscribe", !.arg = pair,
                                               !.ret = "False", !.raised = r.raised]
    /\ UNCHANGED <<should_run, reconnect_attempts, websocket, connection_task,
                   subscriptions, last_ping_time, last_pong_time, now, failures>>
    /\ UNCHANGED engine_vars

\* subscribe() after send returned True: the pair is appended and, after
\* the confirmation wait, True is returned.
SubscribeResume(c) ==
    /\ calls[c].op = "subscribe"
    /\ subscriptions' = Append(subscriptions, calls[c].arg)
    /\ calls' = RemoveAt(calls, c)
    /\ last_op' = [NoOp EXCEPT !.op = "subscribe_return", !.arg = calls[c].arg,
                               !.ret = "True"]
    /\ UNCHANGED <<should_run, reconnect_attempts, websocket, connection_task,
                   last_ping_time, last_pong_time, tasks, now, failures>>
    /\ UNCHANGED engine_vars

\* unsubscribe(channel, instrument_id) up to the await inside send.
UnsubscribeCall(pair, transport_error, max_calls) ==
    /\ InFlight < max_calls
    /\ transport_error => (InSeq(pair, subscriptions) /\ IsOpen(tasks, websocket))
    /\ IF ~InSeq(pair, subscriptions)
       THEN /\ tasks' = tasks
            /\ calls' = calls
            /\ last_op' = [NoOp EXCEPT !.op = "unsubscribe", !.arg = pair, !.ret = "True"]
       ELSE LET r == SendResult(tasks, websocket,
                                [op |-> "unsubscribe", args |-> <<pair>>],
                                transport_error) IN
            /\ tasks' = r.tasks
            /\ IF r.ret
               THEN /\ calls' = Append(calls, [op |-> "unsubscribe", pc |-> "sent",
                                               arg |-> pair])
                    /\ last_op' = [NoOp EXCEPT !.op = "unsubscribe", !.arg = pair,
                                               !.wire = r.wire]
               ELSE /\ calls' = calls
                    /\ last_op' = [NoOp EXCEPT !.op = "unsubscribe", !.arg = pair,
                                               !.ret = "False", !.raised = r.raised]
    /\ UNCHANGED <<should_run, reconnect_attempts, websocket, connection_task,
                   subscriptions, last_ping_time, last_pong_time, now, failures>>
    /\ UNCHANGED engine_vars

\* unsubscribe() after send returned True.
UnsubscribeResume(c) ==
    /\ calls[c].op = "unsubscribe"
    /\ subscriptions' = RemoveFirst(subscriptions, calls[c].arg)
    /\ calls' = RemoveAt(calls, c)
    /\ last_op' = [NoOp EXCEPT !.op = "unsubscribe_return", !.arg = calls[c].arg,
                               !.ret = "True"]
    /\ UNCHANGED <<should_run, reconnect_attempts, websocket, connection_task,
                   last_ping_time, last_pong_time, tasks, now, failures>>
    /\ UNCHANGED engine_vars

----------------------------------------------------------------------------
\* The event loop runs a task created by connect() for the first time.
TaskStart(t) ==
    /\ tasks[t].pc = "start" /\ ~tasks[t].cancelling
    /\ tasks' = [tasks EXCEPT ![t].pc = LoopTop(should_run)]
    /\ last_op' = NoOp
    /\ UNCHANGED <<should_run, reconnect_attempts, websocket, connection_task,
                   subscriptions, last_ping_time, last_pong_time, calls, now, failures>>
    /\ UNCHANGED engine_vars

\* One batch of _resubscribe goes through send(); what was put on the
\* transport is remembered in the task.
ResubSend(tt, t, w, transport_error) ==
    LET batch == tt[t].batches[tt[t].bi]
        r == SendResult(tt, w, [op |-> "subscribe", args |-> batch], transport_error)
    IN [wire |-> r.wire,
        tasks |-> IF r.ret THEN [r.tasks EXCEPT ![t].sent = Append(@, batch)]
                  ELSE r.tasks]

\* websockets.connect succeeds (lines 225-235): the connection is stored,
\* reconnect_attempts is reset, the ping task is created and, if there are
\* subscriptions, _resubscribe runs up to the send of its first batch.
ConnectOk(t, transport_error) ==
    /\ tasks[t].pc = "connecting" /\ ~tasks[t].cancelling
    /\ transport_error => subscriptions # <<>>
    /\ websocket' = t
    /\ reconnect_attempts' = 0
    /\ failures' = 0
    /\ LET opened == [tasks EXCEPT ![t].ws = "open", ![t].ping = "running",
                                   ![t].active_at = now, ![t].sent = <<>>,
                                   ![t].tracked = subscriptions,
                                   ![t].batches = Batches(subscriptions),
                                   ![t].bi = 1,
                                   ![t].pc = IF subscriptions # <<>> THEN "resub"
                                             ELSE "receiving"]
       IN IF subscriptions # <<>>
          THEN LET r == ResubSend(opened, t, t, transport_error) IN
               /\ tasks' = r.tasks
               /\ last_op' = [NoOp EXCEPT !.op = "connected", !.who = t,
                                          !.wire = r.wire]
          ELSE /\ tasks' = opened
               /\ last_op' = [NoOp EXCEPT !.op = "connected", !.who = t]
    /\ UNCHANGED <<should_run, connection_task, subscriptions, last_ping_time,
                   last_pong_time, calls, now>>
    /\ UNCHANGED engine_vars

\* _resubscribe after its sleep(1): the next batch, or back to
\* _maintain_connection, which starts receiving.
ResubStep(t, transport_error) ==
    /\ tasks[t].pc = "resub" /\ ~tasks[t].cancelling
    /\ transport_error => (tasks[t].bi < Len(tasks[t].batches) /\ IsOpen(tasks, websocket))
    /\ IF tasks[t].bi < Len(tasks[t].batches)
       THEN LET r == ResubSend([tasks EXCEPT ![t].bi = @ + 1], t, websocket,
                               transport_error) IN
            /\ tasks' = r.tasks
            /\ last_op' = [NoOp EXCEPT !.op = "resubscribe", !.who = t,
                                       !.wire = r.wire]
       ELSE /\ tasks' = [tasks EXCEPT ![t].pc = "receiving"]
            /\ last_op' = NoOp
    /\ UNCHANGED <<should_run, reconnect_attempts, websocket, connection_task,
                   subscriptions, last_ping_time, last_pong_time, calls, now, failures>>
    /\ UNCHANGED engine_vars

\* An except branch of _maintain_connection runs for task t on tasks tt.
Failure(tt, t) ==
    LET h == FailureHandler(should_run, reconnect_attempts) IN
    /\ websocket' = 0
    /\ reconnect_attempts' = h.attempts
    /\ failures' = failures + 1
    /\ tasks' = [tt EXCEPT ![t].pc = h.pc, ![t].wait_time = h.wait_time]
    /\ last_op' = [NoOp EXCEPT !.op = "failure", !.who = t, !.arg = h.wait_time,
                               !.note = h.note]

\* websockets.connect raises.
ConnectFail(t) ==
    /\ tasks[t].pc = "connecting" /\ ~tasks[t].cancelling
    /\ Failure(tasks, t)
    /\ UNCHANGED <<should_run, connection_task, subscriptions, last_ping_time,
                   last_pong_time, calls, now>>
    /\ UNCHANGED engine_vars

\* The body of "async for" with the except clause of line 252 left out: an
\* exception of the callback goes on to an except branch of the loop.
ReceiveNoCatch(t, callback_raises) ==
    /\ tasks[t].pc = "receiving" /\ ~tasks[t].cancelling
    /\ tasks[t].ws = "open"
    /\ tasks[t].recv < MaxMsgs
    /\ last_pong_time' = now
    /\ IF callback_raises
       THEN Failure([tasks EXCEPT ![t] = EndRound([@ EXCEPT !.ping = "stopped",
                                                            !.ws = "closed_ok"])], t)
       ELSE /\ tasks' = [tasks EXCEPT ![t].active_at = now, ![t].recv = @ + 1]
            /\ last_op' = [NoOp EXCEPT !.op = "message", !.who = t,
                                       !.arg = tasks[t].recv + 1,
                                       !.callback = "returned"]
            /\ UNCHANGED <<reconnect_attempts, websocket, failures>>
    /\ UNCHANGED <<should_run, connection_task, subscriptions, last_ping_time,
                   calls, now>>
    /\ UNCHANGED engine_vars

\* One message arrives (lines 239-253): it is the next one of the
\* connection's stream (recv counts those taken so far) and goes to
\* on_message_callback; an exception of the callback is caught and logged.
Deliver(t, callback_raises) ==
    /\ tasks[t].pc = "receiving" /\ ~tasks[t].cancelling
    /\ tasks[t].ws = "open"
    /\ tasks[t].recv < MaxMsgs
    /\ last_pong_time' = now
    /\ tasks' = [tasks EXCEPT ![t].active_at = now, ![t].recv = @ + 1]
    /\ last_op' = [NoOp EXCEPT !.op = "message", !.who = t,
                               !.arg = tasks[t].recv + 1,
                               !.callback = IF callback_raises THEN "raised"
                                            ELSE "returned"]
    /\ UNCHANGED <<should_run, reconnect_attempts, websocket, connection_task,
                   subscriptions, last_ping_time, calls, now, failures>>

\* A message arrives at a connector whose callback does not touch the
\* engine.
Receive(t, callback_raises) ==
    /\ Deliver(t, callback_raises)
    /\ UNCHANGED engine_vars

\* The frames of the feed as the connector hands them on: the text of the
\* message, not decoded.
FeedInputs == {d \in TickInputs : d.kind = "nondict"}

\* The frames of the worker's own run: raw text, and the empty frame that
\* process_tick answers with a result.
WorkerFrames == {d \in TickInputs : d.kind \in {"nondict", "falsy"}}

\* WebSocketWorker (src/src/main.py): the engine's output_callback emits
\* output_updated (lines 62-66), and on_message emits output_updated with
\* what process_tick returned (lines 46-50).
WorkerEmits(r) == OutputCallbacks(r) \o (IF r.raised THEN <<>> ELSE <<r.output>>)

\* The tick is processed away from the delivery of its message.
ReceiveTickOffLoop(t, running, data) ==
    /\ tasks[t].pc = "receiving" /\ ~tasks[t].cancelling
    /\ tasks[t].ws = "open"
    /\ running /\ tick_count < MaxTicks
    /\ \E r \in {ProcessTickResult(parameters, order_book, data, NoLib)} :
          \E delivered \in {WorkerEmits(r)} : EngineTickFrom(data, r, delivered)
    /\ last_op' = NoOp
    /\ UNCHANGED <<should_run, reconnect_attempts, websocket, connection_task,
                   subscriptions, last_ping_time, last_pong_time, tasks, calls,
                   now, failures>>

\* A message arrives at a connector whose callback is
\* WebSocketWorker.on_message: with an engine and the worker running it
\* calls process_tick(data) then and there; what process_tick raises
\* comes out of the callback.
ReceiveTick(t, running, data) ==
    /\ running => tick_count < MaxTicks
    /\ \E r \in {ProcessTickResult(parameters, order_book, data, NoLib)} :
         /\ Deliver(t, running /\ r.raised)
         /\ IF running
            THEN \E delivered \in {WorkerEmits(r)} : EngineTickFrom(data, r, delivered)
            ELSE UNCHANGED engine_vars

\* "async for" ends because the connection is closed: the finally clause
\* cancels the ping task; a lost connection raises into the except branch,
\* a connection closed by a close handshake ends the iteration silently
\* and the while loop goes round.
RecvEnd(t) ==
    /\ tasks[t].pc = "receiving" /\ ~tasks[t].cancelling
    /\ tasks[t].ws \in {"closed_ok", "closed_err"}
    /\ LET stopped == [tasks EXCEPT ![t] = EndRound([@ EXCEPT !.ping = "stopped"])] IN
       IF tasks[t].ws = "closed_err"
       THEN Failure(stopped, t)
       ELSE /\ tasks' = [stopped EXCEPT ![t].pc = LoopTop(should_run)]
            /\ last_op' = NoOp
            /\ UNCHANGED <<reconnect_attempts, websocket, failures>>
    /\ UNCHANGED <<should_run, connection_task, subscriptions, last_ping_time,
                   last_pong_time, calls, now>>
    /\ UNCHANGED engine_vars

\* The sleep of an except branch is over.
BackoffWake(t) ==
    /\ tasks[t].pc = "backoff" /\ ~tasks[t].cancelling
    /\ tasks' = [tasks EXCEPT ![t].pc = LoopTop(should_run), ![t].wait_time = 0]
    /\ last_op' = NoOp
    /\ UNCHANGED <<should_run, reconnect_attempts, websocket, connection_task,
                   subscriptions, last_ping_time, last_pong_time, calls, now, failures>>
    /\ UNCHANGED engine_vars

\* The CancelledError of disconnect() reaches the task where it is
\* suspended.  It is not an Exception, so no except branch runs; "async
\* with" closes the connection; the finally clause cancels the ping task
\* only if the task was already receiving.
TaskCancelled(t) ==
    /\ tasks[t].cancelling /\ ~Finished(t)
    /\ tasks' = [tasks EXCEPT ![t] = EndRound([@ EXCEPT
                   !.pc = "cancelled",
                   !.cancelling = FALSE,
                   !.wait_time = 0,
                   !.ws = IF @ = "open" THEN "closed_ok" ELSE @,
                   !.ping = IF tasks[t].pc = "receiving" /\ @ = "running"
                            THEN "stopped" ELSE @])]
    /\ last_op' = NoOp
    /\ UNCHANGED <<should_run, reconnect_attempts, websocket, connection_task,
                   subscriptions, last_ping_time, last_pong_time, calls, now, failures>>
    /\ UNCHANGED engine_vars

\* One iteration of _ping_loop of task t (lines 329-352).  It works on
\* self.websocket, whichever connection that is.
PingIter(t, transport_error) ==
    /\ tasks[t].ping = "running"
    /\ transport_error => (now - last_ping_time >= ping_interval /\ IsOpen(tasks, websocket))
    /\ LET due == now - last_ping_time >= ping_interval /\ IsOpen(tasks, websocket)
           r == IF due THEN SendResult(tasks, websocket, [op |-> "ping", args |-> <<>>],
                                       transport_error)
                ELSE [ret |-> FALSE, raised |-> FALSE, wire |-> <<>>, tasks |-> tasks]
           timeout == last_pong_time > 0 /\ now - last_pong_time > 2 * ping_interval
       IN /\ last_ping_time' = IF due THEN now ELSE last_ping_time
          /\ tasks' = IF timeout
                      THEN LET closed == [CloseWs(r.tasks, websocket) EXCEPT
                                             ![t].ping = "stopped"]
                           IN IF IsOpen(r.tasks, websocket)
                              THEN [closed EXCEPT ![websocket].forced = TRUE]
                              ELSE closed
                      ELSE r.tasks
          /\ last_op' = IF r.wire = <<>> /\ ~timeout THEN NoOp
                         ELSE [NoOp EXCEPT !.op = "ping", !.who = t, !.wire = r.wire,
                                           !.note = IF timeout THEN "timeout" ELSE ""]
    /\ UNCHANGED <<should_run, reconnect_attempts, websocket, connection_task,
                   subscriptions, last_pong_time, calls, now, failures>>
    /\ UNCHANGED engine_vars

----------------------------------------------------------------------------
\* The network: a connection is lost, or the server closes it with a close
\* handshake.
ConnLost(t) ==
    /\ tasks[t].ws = "open"
    /\ tasks' = [tasks EXCEPT ![t].ws = "closed_err"]
    /\ last_op' = NoOp
    /\ UNCHANGED <<should_run, reconnect_attempts, websocket, connection_task,
                   subscriptions, last_ping_time, last_pong_time, calls, now, failures>>
    /\ UNCHANGED engine_vars

ServerClose(t) ==
    /\ tasks[t].ws = "open"
    /\ tasks' = [tasks EXCEPT ![t].ws = "closed_ok"]
    /\ last_op' = NoOp
    /\ UNCHANGED <<should_run, reconnect_attempts, websocket, connection_task,
                   subscriptions, last_ping_time, last_pong_time, calls, now, failures>>
    /\ UNCHANGED engine_vars

\* Time passes.
Advance(d) ==
    /\ now + d <= MaxTime
    /\ now' = now + d
    /\ last_op' = NoOp
    /\ UNCHANGED <<should_run, reconnect_attempts, websocket, connection_task,
                   subscriptions, last_ping_time, last_pong_time, tasks, calls, failures>>
    /\ UNCHANGED engine_vars

----------------------------------------------------------------------------
\* What the owner of the connector and the network may do.
Pairs == 1..MaxPairs
TimeSteps == {ping_interval + 1}

\* The steps of a maintenance task and its ping loop, but for the
\* handling of a message.
LoopStep(t) ==
    \/ TaskStart(t)
    \/ \E transport_error \in BOOLEAN : ConnectOk(t, transport_error)
    \/ ConnectFail(t)
    \/ \E transport_error \in BOOLEAN : ResubStep(t, transport_error)
    \/ RecvEnd(t)
    \/ BackoffWake(t)
    \/ TaskCancelled(t)
    \/ \E transport_error \in BOOLEAN : PingIter(t, transport_error)

TaskStep(t) ==
    \/ LoopStep(t)
    \/ \E callback_raises \in BOOLEAN : Receive(t, callback_raises)

FeedStep(t) ==
    \/ LoopStep(t)
    \/ \E running \in BOOLEAN, data \in FeedInputs : ReceiveTick(t, running, data)

WorkerStep(t) ==
    \/ LoopStep(t)
    \/ \E running \in BOOLEAN, data \in WorkerFrames : ReceiveTick(t, running, data)

CallStep(c) ==
    \/ ConnectReturnTrue(c)
    \/ ConnectReturnFalse(c)
    \/ DisconnectAfterTask(c)
    \/ DisconnectFinish(c)
    \/ SubscribeResume(c)
    \/ UnsubscribeResume(c)

\* The connector without its clock: every coroutine of the class, the
\* owner's calls and the network.
NextCalls(max_connects, max_calls) ==
    \/ ConnectCall(max_connects, max_calls)
    \/ DisconnectCall(max_calls)
    \/ \E transport_error \in BOOLEAN : SendCall(transport_error, max_calls)
    \/ \E pair \in Pairs, transport_error \in BOOLEAN :
          SubscribeCall(pair, transport_error, max_calls)
    \/ \E pair \in Pairs, transport_error \in BOOLEAN :
          UnsubscribeCall(pair, transport_error, max_calls)
    \/ \E c \in 1..Len(calls) : CallStep(c)

NextNetwork ==
    \/ \E t \in TaskIds : ConnLost(t)
    \/ \E t \in TaskIds : ServerClose(t)

NextConn ==
    \/ NextCalls(MaxConnects, MaxCalls)
    \/ \E t \in TaskIds : TaskStep(t)
    \/ NextNetwork

\* The connector with its clock, for one connect() at a time.
NextHeartbeat ==
    \/ NextCalls(ClockConnects, ClockCalls)
    \/ \E t \in TaskIds : TaskStep(t)
    \/ NextNetwork
    \/ \E d \in TimeSteps : Advance(d)

\* The connector feeding one engine through WebSocketWorker.on_message.
NextFeed ==
    \/ NextCalls(MaxConnects, ClockCalls)
    \/ \E t \in TaskIds : FeedStep(t)
    \/ NextNetwork

\* One connection of the connector feeding WebSocketWorker.on_message.
NextWorker ==
    \/ NextCalls(ClockConnects, ClockCalls)
    \/ \E t \in TaskIds : WorkerStep(t)
    \/ NextNetwork

(***************************************************************************)
(* Application (src/main.py)                                               *)
(*                                                                         *)
(* A message is                                                            *)
(*   parse      what the frame is: "unparsable" (a str json.loads          *)
(*              rejects), "dict" (a str that decodes to a dict), "list"    *)
(*              (a str that decodes to something else), "bytes"            *)
(*   event      its 'event' entry ("" for none)                            *)
(*   has_data, has_arg, has_ts   whether it has these keys                 *)
(*   channel    arg['channel']                                             *)
(*   data       its 'data' entry: a list of items with asks and bids       *)
(***************************************************************************)
\* The modules main.py imports by name (lines 9-12).
imported_modules == {"sys", "asyncio", "logging", "json"}

NoForward(outcome) ==
    [forwarded |-> FALSE, outcome |-> outcome,
     order_book_data |-> [kind |-> "none", timestamp |-> AbsentTs,
                          asks |-> ListOf(<<>>), bids |-> ListOf(<<>>)]]

\* on_websocket_message, lines 199-270.  The dict for process_tick is built
\* with message.get('ts', time.time() * 1000): the default is evaluated
\* before get is called, and raises NameError when main.py has no name
\* time; the except branch at line 266 logs it.
on_websocket_message(message) ==
    IF message.parse = "unparsable" THEN NoForward("JSONDecodeError")
    ELSE IF message.parse # "dict" THEN NoForward("non-dict")
    ELSE IF message.event = "subscribe" THEN NoForward("subscribe")
    ELSE IF message.event = "error" THEN NoForward("error event")
    ELSE IF ~(message.has_data /\ message.has_arg) THEN NoForward("other message")
    ELSE IF message.channel # "books" THEN NoForward("other channel")
    ELSE IF Len(message.data) = 0 THEN NoForward("no data item")
    ELSE IF "time" \notin imported_modules THEN NoForward("NameError")
    ELSE LET data == message.data[1]
             ask_count == Len(data.asks)
             bid_count == Len(data.bids)
         IN IF ask_count > 0 /\ bid_count > 0
            THEN [forwarded |-> TRUE, outcome |-> "processed",
                  order_book_data |->
                      [kind |-> "dict",
                       timestamp |-> IF message.has_ts THEN NumStr(7) ELSE WallClock,
                       asks |-> ListOf(data.asks), bids |-> ListOf(data.bids)]]
            ELSE NoForward("empty order book")

\* The messages the connector may hand on.
AppLevels == {<<>>, <<Level(NumStr(2), NumStr(1))>>}
AppItems == {[asks |-> a, bids |-> b] : a \in AppLevels, b \in AppLevels}
AppMessages ==
    {[parse |-> p, event |-> "", has_data |-> FALSE, has_arg |-> FALSE,
      has_ts |-> FALSE, channel |-> "", data |-> <<>>] :
         p \in {"unparsable", "list", "bytes"}}
    \cup {[parse |-> "dict", event |-> e, has_data |-> d, has_arg |-> a,
           has_ts |-> ts, channel |-> c, data |-> IF d THEN items ELSE <<>>] :
              e \in {"", "subscribe", "error"}, d \in BOOLEAN, a \in BOOLEAN,
              ts \in BOOLEAN, c \in {"books", "tickers"},
              items \in SeqsUpTo(AppItems, 1)}

\* The connector's callback of Application: on_websocket_message(message),
\* and process_tick when it gets that far.
AppMessage(message) ==
    LET res == on_websocket_message(message) IN
      /\ res.forwarded => tick_count < MaxTicks
      /\ IF res.forwarded
         THEN EngineTick(res.order_book_data,
                         ProcessTickResult(parameters, order_book,
                                           res.order_book_data, NoLib))
         ELSE UNCHANGED engine_vars
      /\ last_op' = [NoOp EXCEPT !.op = "on_websocket_message", !.arg = message,
                                 !.note = res.outcome]
      /\ UNCHANGED <<should_run, reconnect_attempts, websocket, connection_task,
                     subscriptions, last_ping_time, last_pong_time, tasks, calls,
                     now, failures>>

NextApp == \E message \in AppMessages : AppMessage(message)

\* The engine alone starts from any of the parameter sets; the connector
\* runs beside an engine that is not fed.
Init == InitEngine /\ InitConn
InitIdleEngine == Init /\ parameters = GoodParams
InitBook == InitBooks /\ InitConn
InitQuery == InitQueries /\ InitConn
InitCost == InitBooks /\ InitConn

SpecEngine == Init /\ [][NextEngine]_vars
SpecConn == InitIdleEngine /\ [][NextConn]_vars
SpecHeartbeat == InitIdleEngine /\ [][NextHeartbeat]_vars
SpecFeed == InitIdleEngine /\ [][NextFeed]_vars
SpecWorker == InitIdleEngine /\ [][NextWorker]_vars
SpecBook == InitBook /\ [][NextBook]_vars
SpecQuery == InitQuery /\ [][NextQuery]_vars
SpecCost == InitCost /\ [][NextCost]_vars
SpecLatency == Init /\ [][NextLatency]_vars
SpecApp == Init /\ [][NextApp]_vars

(***************************************************************************)
(* Properties of SimulationEngine.process_tick                            *)
(***************************************************************************)
ModelCalls == {"maker_taker", "fee", "slippage", "impact"}
TickDone == last_tick.kind # ""

\* C1: process_tick never raises, whatever tick_data is: every call ends
\* in a success result or in an error result whose status is 'error'.
C1_NeverRaises ==
    TickDone => /\ ~last_tick.raised
                /\ last_tick.success \/ last_tick.output.status = "error"

\* C2: a tick whose snapshot makes the book update fail returns an error
\* result that carries the error message and the tick's timestamp, and
\* leaves the order book exactly as it was before the call.
C2_ErrorLeavesBookUntouched ==
    [][(tick_count' = tick_count + 1 /\ last_tick'.failed_at = "update")
          => /\ order_book' = order_book
             /\ last_tick'.output.status = "error"
             /\ last_tick'.output.error # ""
             /\ last_tick'.output.timestampUTC =
                   IF last_tick'.timestamp.tag = "absent" THEN NoneVal
                   ELSE last_tick'.timestamp]_vars

\* C3: when one of the four model calls fails (it raises, or it falls
\* back inside the model), the tick still ends in a success result, and
\* that result records the failure.
C3_ModelFailureConfined ==
    (TickDone /\ \E m \in ModelCalls : last_tick.calls[m] \in {"raised", "fallback"})
        => /\ last_tick.success
           /\ last_tick.output.error # ""

(***************************************************************************)
(* Properties of WebSocketConnector                                        *)
(***************************************************************************)
Smaller(a, b) == IF a < b THEN a ELSE b
Count(x, seq) == Cardinality({i \in 1..Len(seq) : seq[i] = x})
RECURSIVE Flatten(_)
Flatten(seqs) == IF seqs = <<>> THEN <<>> ELSE Head(seqs) \o Flatten(Tail(seqs))

C5_NoAttemptAfterGiveUp ==
    [][reconnect_attempts > max_reconnect_attempts
          => \A t \in TaskIds :
                tasks'[t].pc = "connecting" => tasks[t].pc = "connecting"]_vars

\* C6: the step in which a loop gives up reports it: a callback is
\* invoked, a value is returned to a caller, or the connector's status
\* (should_run) changes.
C6_GiveUpReported ==
    (last_op.op = "failure" /\ last_op.note = "gave_up")
        => \/ last_op.callback # "none"
           \/ last_op.ret # "none"
           \/ ~should_run

\* C7: when a loop has resubscribed on a connection that stayed open, no
\* command it sent carries more than 10 pairs and every pair tracked when
\* the connection opened is named exactly once in them.
C7_ResubscribeOnce ==
    \A t \in TaskIds :
        (tasks[t].pc = "receiving" /\ tasks[t].ws = "open" /\ websocket = t
            /\ tasks[t].tracked # <<>>)
        => /\ \A k \in 1..Len(tasks[t].sent) : Len(tasks[t].sent[k]) <= 10
           /\ \A i \in 1..Len(tasks[t].tracked) :
                 Count(tasks[t].tracked[i], Flatten(tasks[t].sent)) = 1

\* C8: subscribe for a tracked pair sends nothing, leaves the tracked
\* list (and the connection) as it is and returns True; subscribe for an
\* untracked pair on an open connection whose transport works puts
\* exactly one subscribe command on it, naming just that pair.
C8_SubscribeIdempotent ==
    [][\A pair \in Pairs :
          SubscribeCall(pair, FALSE, MaxCalls)
             => /\ InSeq(pair, subscriptions)
                   => /\ last_op'.wire = <<>>
                      /\ last_op'.ret = "True" /\ ~last_op'.raised
                      /\ subscriptions' = subscriptions
                      /\ tasks' = tasks /\ calls' = calls
                /\ (~InSeq(pair, subscriptions) /\ IsOpen(tasks, websocket))
                   => /\ Len(last_op'.wire) = 1
                      /\ last_op'.wire[1].op = "subscribe"
                      /\ last_op'.wire[1].args = <<pair>>
                      /\ last_op'.wire[1].conn = websocket]_vars

C8_Witness ==
    /\ last_op.op = "subscribe" /\ last_op.ret = "True" /\ last_op.wire = <<>>
    /\ InSeq(last_op.arg, subscriptions)
    /\ IsOpen(tasks, websocket)

\* C9: send() never raises; when the connector is not connected it
\* returns False and puts nothing on any transport; when the transport
\* fails during the send it returns False.
C9_SendFailsFast ==
    [][\A transport_error \in BOOLEAN :
          SendCall(transport_error, MaxCalls)
             => /\ ~last_op'.raised
                /\ ~IsOpen(tasks, websocket)
                   => /\ last_op'.ret = "False" /\ last_op'.wire = <<>>
                      /\ tasks' = tasks
                /\ transport_error => last_op'.ret = "False" /\ last_op'.wire = <<>>]_vars

C9_Witness ==
    /\ last_op.op = "send" /\ last_op.ret = "False" /\ ~last_op.raised
    /\ reconnect_attempts > max_reconnect_attempts
    /\ \E t \in TaskIds : tasks[t].pc = "done"

\* C10: an iteration of the heartbeat loop of a connection that is open
\* and has had no inbound message for more than 2 * ping_interval since it
\* opened closes that connection.
C10_SilentConnectionClosed ==
    [][\A t \in TaskIds :
          ((\E transport_error \in BOOLEAN : PingIter(t, transport_error))
              /\ tasks[t].ws = "open" /\ websocket = t
              /\ now - tasks[t].active_at > 2 * ping_interval)
          => tasks'[t].ws # "open"]_vars

----------------------------------------------------------------------------
\* C11: a failure while one inbound message is handled (here: the callback
\* raises, which is also where unparsable content shows) stays with that
\* message: the step leaves the task in its receive loop on the same open
\* connection, the connector's websocket and heartbeat as they were, no
\* failure counted, and the message handed to the callback is the next
\* one of the stream whatever happened to the ones before it.
C11_MessageFailureConfined ==
    [][\A t \in TaskIds :
          Receive(t, TRUE) =>
             /\ tasks'[t].pc = "receiving" /\ ~tasks'[t].cancelling
             /\ tasks'[t].ws = "open"
             /\ tasks'[t].ping = tasks[t].ping
             /\ websocket' = websocket
             /\ reconnect_attempts' = reconnect_attempts
             /\ failures' = failures
             /\ last_op'.op = "message"
             /\ last_op'.arg = tasks[t].recv + 1
             /\ tasks'[t].recv = tasks[t].recv + 1]_vars

\* The callback has just raised on the first message of a connection that
\* can deliver more.
C11_Witness ==
    /\ last_op.op = "message" /\ last_op.callback = "raised" /\ last_op.arg = 1
    /\ tasks[last_op.who].pc = "receiving" /\ tasks[last_op.who].ws = "open"
    /\ tasks[last_op.who].recv < MaxMsgs

\* C12: when disconnect() has returned, no maintenance loop and no
\* heartbeat loop is running any more, no connection is open and the
\* connector holds no websocket, so that no connection attempt, ping or
\* callback can follow.
C12_DisconnectStopsEverything ==
    last_op.op = "disconnect_return" =>
        /\ websocket = 0
        /\ \A t \in TaskIds : /\ Finished(t)
                              /\ tasks[t].ping # "running"
                              /\ tasks[t].ws # "open"

\* C13: process_tick runs only inside the step that delivers a message,
\* once, from its call to its return, so no two executions on the engine
\* overlap and they follow each other in the order of the deliveries.
C13_TicksInDeliveryOrder ==
    [][tick_count' # tick_count =>
          /\ tick_count' = tick_count + 1
          /\ last_op'.op = "message"
          /\ tasks'[last_op'.who].recv = tasks[last_op'.who].recv + 1
          /\ \A u \in TaskIds : u # last_op'.who => tasks'[u] = tasks[u]
          /\ last_tick'.kind \in {d.kind : d \in FeedInputs}]_vars

\* Two maintenance loops have both delivered to the engine.
C13_Witness ==
    /\ tick_count = 2
    /\ last_op.op = "message" /\ last_op.who = 2
    /\ Len(tasks) = 2 /\ tasks[1].recv >= 1 /\ tasks[2].recv >= 1

----------------------------------------------------------------------------
Reverse(seq) == [i \in 1..Len(seq) |-> seq[Len(seq) + 1 - i]]
StrictlyDescending(seq) == \A i \in 1..(Len(seq) - 1) : seq[i] > seq[i + 1]
StrictlyAscending(seq) == \A i \in 1..(Len(seq) - 1) : seq[i] < seq[i + 1]

\* The prices of a side of the orderbook.py book, walked in key order.
L2Prices(side) ==
    LET keys == KeysAscending(DOMAIN side) IN
    [i \in 1..Len(keys) |-> side[keys[i]].price]

Acceptable(level) ==
    /\ level.seq /\ Len(level.toks) >= 2
    /\ ParseFloat(level.toks[1]).ok /\ ParseFloat(level.toks[2]).ok
    /\ ParseFloat(level.toks[1]).val >= 0
    /\ ParseFloat(level.toks[2]).val > 0

LevelPrice(level) == ParseFloat(level.toks[1]).val
LevelQty(level) == ParseFloat(level.toks[2]).val

\* What the claims expect of a side after update() was given the
\* non-empty list items for it: no level from an unacceptable entry, and
\* each acceptable one under its price with its quantity (the last one
\* when a price comes twice; all of them when they fit in max_depth).
OnlyAcceptableStored(side, items) ==
    \A p \in DOMAIN side :
       \E i \in 1..Len(items) : /\ Acceptable(items[i])
                                /\ LevelPrice(items[i]) = p
                                /\ LevelQty(items[i]) = side[p]

AcceptableStored(side, items, depth) ==
    LET prices == {LevelPrice(items[i]) : i \in {j \in 1..Len(items) : Acceptable(items[j])}}
    IN Cardinality(prices) <= depth =>
          \A i \in 1..Len(items) :
             (/\ Acceptable(items[i])
              /\ \A j \in (i + 1)..Len(items) :
                    Acceptable(items[j]) => LevelPrice(items[j]) # LevelPrice(items[i]))
             => /\ LevelPrice(items[i]) \in DOMAIN side
                /\ side[LevelPrice(items[i])] = LevelQty(items[i])

\* C15: an update() of the order_book.py book does not raise, stores no
\* level whose price or quantity is non-numeric or negative or whose
\* quantity is zero, and stores every other level of the call with its
\* quantity.
C15_BadLevelsOmitted ==
    (last_update.target = "order_book") =>
        /\ ~last_update.raised
        /\ Truthy(last_update.data.asks) =>
              /\ OnlyAcceptableStored(order_book.asks, last_update.data.asks.items)
              /\ AcceptableStored(order_book.asks, last_update.data.asks.items,
                                  order_book.max_depth)
        /\ Truthy(last_update.data.bids) =>
              /\ OnlyAcceptableStored(order_book.bids, last_update.data.bids.items)
              /\ AcceptableStored(order_book.bids, last_update.data.bids.items,
                                  order_book.max_depth)

\* The levels of a list that _update_side lets through, the quantity that
\* is left under a price, and the prices max_depth keeps.
Accepted(items) ==
    {i \in 1..Len(items) : /\ items[i].seq /\ Len(items[i].toks) >= 2
                           /\ ParseFloat(items[i].toks[1]).ok
                           /\ ParseFloat(items[i].toks[2]).ok
                           /\ ParseFloat(items[i].toks[2]).val > 0}

LastQty(items, p) ==
    LevelQty(items[Max({i \in Accepted(items) : LevelPrice(items[i]) = p})])

KeptPrices(prices, is_bid, depth) ==
    {p \in prices :
        Cardinality({q \in prices : IF is_bid THEN q > p ELSE q < p}) < depth}

ExpectedSide(items, is_bid, depth) ==
    LET prices == {LevelPrice(items[i]) : i \in Accepted(items)} IN
    [p \in KeptPrices(prices, is_bid, depth) |-> LastQty(items, p)]

\* C16: after update() was given a non-empty list for a side, the side
\* holds exactly the accepted levels of that list, cut to max_depth, and
\* so nothing of what it held before; it is empty if none was accepted.
C16_SideReplacedWholesale ==
    (last_update.target = "order_book") =>
        /\ Len(last_update.data.asks.items) > 0 =>
              order_book.asks = ExpectedSide(last_update.data.asks.items, FALSE,
                                             order_book.max_depth)
        /\ Len(last_update.data.bids.items) > 0 =>
              order_book.bids = ExpectedSide(last_update.data.bids.items, TRUE,
                                             order_book.max_depth)

\* C17: after an update() whose list for a side was empty or absent, the
\* side holds what it held before the call, in either book class.
C17_EmptySideLeftAlone ==
    /\ (last_update.target = "order_book") =>
          /\ Len(last_update.data.asks.items) = 0 =>
                order_book.asks = last_update.before.asks
          /\ Len(last_update.data.bids.items) = 0 =>
                order_book.bids = last_update.before.bids
    /\ (last_update.target = "orderbook") =>
          /\ Len(last_update.data.asks.items) = 0 =>
                orderbook.asks = last_update.before.asks
          /\ Len(last_update.data.bids.items) = 0 =>
                orderbook.bids = last_update.before.bids

\* C18: after every update() a side of the order_book.py book holds at
\* most max_depth levels, and when the list given for it had more accepted
\* levels than that, its prices are the max_depth highest (bids) or
\* lowest (asks) of them.
C18_DepthBounded ==
    /\ Cardinality(DOMAIN order_book.asks) <= order_book.max_depth
    /\ Cardinality(DOMAIN order_book.bids) <= order_book.max_depth
    /\ (last_update.target = "order_book") =>
          LET a == last_update.data.asks.items
              b == last_update.data.bids.items
              pa == {LevelPrice(a[i]) : i \in Accepted(a)}
              pb == {LevelPrice(b[i]) : i \in Accepted(b)}
          IN /\ Cardinality(pa) > order_book.max_depth =>
                   DOMAIN order_book.asks = KeptPrices(pa, FALSE, order_book.max_depth)
             /\ Cardinality(pb) > order_book.max_depth =>
                   DOMAIN order_book.bids = KeptPrices(pb, TRUE, order_book.max_depth)

\* C19: in no state does a book of either class hold a best bid at or
\* above its best ask (neither class has anything that would mark such a
\* book, so holding one is holding it as trusted).
C19_NeverCrossed ==
    /\ (DOMAIN order_book.bids # {} /\ DOMAIN order_book.asks # {}) =>
          Max(DOMAIN order_book.bids) < Min(DOMAIN order_book.asks)
    /\ (DOMAIN orderbook.bids # {} /\ DOMAIN orderbook.asks # {}) =>
          get_best_bid(orderbook).n < get_best_ask(orderbook).n

\* The highest bid price and the lowest ask price among the entries of
\* the orderbook.py book.
HighestBid == Max({orderbook.bids[k].price : k \in DOMAIN orderbook.bids})
LowestAsk == Min({orderbook.asks[k].price : k \in DOMAIN orderbook.asks})

----------------------------------------------------------------------------
\* The prices of a list of (price, quantity) pairs.
PricesOf(pairs) == [i \in 1..Len(pairs) |-> pairs[i][1]]

\* The n levels of a set of prices nearest the best one, best first.
NearestBest(prices, is_bid, n) ==
    IF is_bid THEN FirstN(Reverse(KeysAscending(prices)), n)
    ELSE FirstN(KeysAscending(prices), n)

\* C21: get_depth(n) of either book class gives for each side the
\* min(n, size) levels nearest the best price, best first, each with its
\* stored quantity.
C21_DepthNearestBestFirst ==
    \A n \in 1..MaxDepthArg :
       LET d == get_depth(order_book, n)
           e == L2_get_depth(orderbook, n)
           l2bids == {orderbook.bids[k].price : k \in DOMAIN orderbook.bids}
           l2asks == {orderbook.asks[k].price : k \in DOMAIN orderbook.asks}
       IN /\ PricesOf(d.bids) = NearestBest(DOMAIN order_book.bids, TRUE, n)
          /\ PricesOf(d.asks) = NearestBest(DOMAIN order_book.asks, FALSE, n)
          /\ \A i \in 1..Len(d.bids) : d.bids[i][2] = order_book.bids[d.bids[i][1]]
          /\ \A i \in 1..Len(d.asks) : d.asks[i][2] = order_book.asks[d.asks[i][1]]
          /\ PricesOf(e.bids) = NearestBest(l2bids, TRUE, n)
          /\ PricesOf(e.asks) = NearestBest(l2asks, FALSE, n)
          /\ \A i \in 1..Len(e.bids) : e.bids[i][2] = orderbook.bids[-e.bids[i][1]].qty
          /\ \A i \in 1..Len(e.asks) : e.asks[i][2] = orderbook.asks[e.asks[i][1]].qty

\* The prices of a set, the best first: the lowest first for a buy (asks),
\* the highest first for a sell (bids).
BestFirst(prices, is_buy) ==
    IF is_buy THEN KeysAscending(prices) ELSE Reverse(KeysAscending(prices))

\* The asset quantity a notional buys when it is spent level by level in
\* the order given and all of what is left at the last level is spent at
\* the price of that level.
RECURSIVE BoughtFor(_, _, _, _)
BoughtFor(prices, QtyAt, i, notional) ==
    IF i = Len(prices) THEN Frac(notional, prices[i])
    ELSE LET room == prices[i] * QtyAt[prices[i]]
             fill == IF notional < room THEN notional ELSE room
         IN IF notional - fill > 0
            THEN FracAdd(Frac(fill, prices[i]),
                         BoughtFor(prices, QtyAt, i + 1, notional - fill))
            ELSE Frac(fill, prices[i])

\* The cost of a size taken level by level in the order given, all of what
\* is left at the last level costed at the price of that level.
RECURSIVE PaidFor(_, _, _, _)
PaidFor(prices, QtyAt, i, size) ==
    IF i = Len(prices) THEN size * prices[i]
    ELSE LET taken == IF size < QtyAt[prices[i]] THEN size ELSE QtyAt[prices[i]]
         IN taken * prices[i]
            + (IF size - taken > 0 THEN PaidFor(prices, QtyAt, i + 1, size - taken)
               ELSE 0)

L2Side(book, is_buy) ==
    LET side == IF is_buy THEN book.asks ELSE book.bids
    IN [p \in {side[k].price : k \in DOMAIN side} |->
           LET k == CHOOSE k \in DOMAIN side : side[k].price = p IN side[k].qty]

\* C22: the market-order cost walk takes the relevant side from its best
\* price outward, and when the order is larger than what the side holds,
\* what is left is costed at the last price of that side: the returned
\* cost covers the whole order.  (Sides with prices above zero.)
C22_RemainderCostedAtLastPrice ==
    /\ (/\ last_query.op = "calculate_market_order_cost"
        /\ last_query.arg > 0
        /\ DOMAIN orderbook.bids # {} /\ DOMAIN orderbook.asks # {}
        /\ \A p \in DOMAIN L2Side(orderbook, last_query.is_buy) : p > 0)
       => LET QtyAt == L2Side(orderbook, last_query.is_buy)
              prices == BestFirst(DOMAIN QtyAt, last_query.is_buy)
              bought == BoughtFor(prices, QtyAt, 1, last_query.arg)
          IN /\ ~last_query.result.raised
             => /\ last_query.result.total_cost = Whole(last_query.arg)
                /\ last_query.result.average_price
                      = FracDiv(Whole(last_query.arg), bought)
    /\ (/\ last_query.op = "_estimate_price_impact"
        /\ order_book.is_initialized
        /\ DOMAIN order_book.bids # {} /\ DOMAIN order_book.asks # {}
        /\ Max(DOMAIN order_book.bids) + Min(DOMAIN order_book.asks) # 0)
       => LET QtyAt == IF last_query.is_buy THEN order_book.asks ELSE order_book.bids
              prices == BestFirst(DOMAIN QtyAt, last_query.is_buy)
              mid == Frac(Max(DOMAIN order_book.bids) + Min(DOMAIN order_book.asks), 2)
              avg == Frac(PaidFor(prices, QtyAt, 1, last_query.arg), last_query.arg)
          IN last_query.result = FracDiv(FracAbs(FracSub(avg, mid)), mid)

\* Sum of price * qty over one side of the orderbook.py book.
SideNotional(QtyAt) ==
    LET prices == KeysAscending(DOMAIN QtyAt)
    IN SumFrom([i \in 1..Len(prices) |-> prices[i] * QtyAt[prices[i]]], 1)

C24_NoFeaturesOfEmptyBook ==
    (last_query.op = "get_order_book_features") =>
        /\ (/\ last_query.target = "order_book"
            /\ \/ ~order_book.is_initialized
               \/ DOMAIN order_book.bids = {}
               \/ DOMAIN order_book.asks = {})
           => DOMAIN last_query.result = {}
        /\ (/\ last_query.target = "orderbook"
            /\ \/ ~orderbook.updated
               \/ DOMAIN orderbook.bids = {}
               \/ DOMAIN orderbook.asks = {})
           => DOMAIN last_query.result = {}

\* C25: when get_order_book_features returns the empty dict during
\* process_tick, the models are handed the fixed default feature set and
\* not the empty dict.
C25_DefaultFeaturesForEmptyMap ==
    (/\ last_tick.kind = "dict"
     /\ last_tick.calls.maker_taker # "not called"
     /\ DOMAIN GetOrderBookFeatures(order_book) = {})
    => LET handed == FeaturesForModels(order_book)
       IN /\ DOMAIN handed = DOMAIN DefaultFeatures
          /\ \A k \in DOMAIN handed : handed[k] = DefaultFeatures[k]

\* C26: a successful process_tick has applied the snapshot to the book
\* once, extracted the features once after that, and then called each
\* model once, in the order maker/taker, fee, slippage, market impact;
\* calculate_fees was given the maker/taker split of this tick, the one
\* the result reports.
C26_EachModelOnceInOrder ==
    last_tick.success =>
        /\ last_tick.calls.order
              = <<"update", "features", "maker_taker", "fee", "slippage", "impact">>
        /\ last_tick.calls.split
              = Split(last_tick.output.maker, last_tick.output.taker)

\* The second tick of an engine succeeded on a two-sided book, no model
\* falling back.
C26_Witness ==
    /\ last_tick.success
    /\ tick_count = MaxTicks
    /\ \A name \in {"maker_taker", "fee", "slippage", "impact"} :
          last_tick.calls[name] = "ok"
    /\ DOMAIN order_book.asks # {} /\ DOMAIN order_book.bids # {}

\* C27: in every success result, the net cost is the sum of the expected
\* slippage, the expected fees and the expected market impact of that
\* same result.
C27_NetCostIsSum ==
    last_tick.success =>
        last_tick.output.net
          = MoneyAdd(MoneyAdd(last_tick.output.slippage, last_tick.output.fees),
                     last_tick.output.impact)

\* A success result whose three parts are all above zero.
C27_Witness ==
    /\ last_tick.success
    /\ last_tick.output.slippage.rat.num > 0
    /\ last_tick.output.fees.rat.num > 0
    /\ last_tick.output.impact.surd.num > 0

InUnit(p) == FracLE(Whole(0), p) /\ FracLE(p, Whole(1))

KnownFees(arg) ==
    /\ arg.exchange \in DOMAIN exchange_fee_tiers
    /\ arg.fee_tier \in DOMAIN exchange_fee_tiers[arg.exchange]

\* C29: calculate_fees charges quantity * (maker share * maker rate +
\* taker share * taker rate) at the rates of the selected tier, the shares
\* being the supplied split; without a split a market order is charged at
\* the taker rate alone and a limit order at the maker rate alone.
C29_FeeBlendsTierRates ==
    (/\ last_query.op = "calculate_fees"
     /\ KnownFees(last_query.arg)
     /\ ~last_query.result.raised
     /\ last_query.arg.maker_taker_proportion.given
        => FracAdd(last_query.arg.maker_taker_proportion.maker,
                   last_query.arg.maker_taker_proportion.taker) = Whole(1))
    => LET arg == last_query.arg
           rates == exchange_fee_tiers[arg.exchange][arg.fee_tier]
           maker == IF arg.maker_taker_proportion.given
                    THEN arg.maker_taker_proportion.maker
                    ELSE IF arg.order_type = "market" THEN Whole(0) ELSE Whole(1)
           taker == IF arg.maker_taker_proportion.given
                    THEN arg.maker_taker_proportion.taker
                    ELSE IF arg.order_type = "market" THEN Whole(1) ELSE Whole(0)
       IN last_query.result.total_fee_usd
            = FracMul(Whole(arg.quantity_usd.n),
                      FracAdd(FracMul(maker, rates.maker), FracMul(taker, rates.taker)))

\* C30: for an exchange or a fee tier that is not known, calculate_fees
\* does not raise and charges one and the same default rate on the maker
\* part and on the taker part.
C30_UnknownChargedFlatDefault ==
    (/\ last_query.op = "calculate_fees"
     /\ ~KnownFees(last_query.arg)
     /\ IsNumber(last_query.arg.quantity_usd)
     /\ last_query.arg.maker_taker_proportion.given \/ IsStr(last_query.arg.order_type))
    => /\ ~last_query.result.raised
       /\ last_query.result.maker_fee_rate = last_query.result.taker_fee_rate

\* C31: the latency samples the engine keeps for its per-tick statistics
\* (the mean in each result, the mean, max and percentiles of
\* get_performance_metrics) never number more than the window size.
C31_SamplesWithinWindow == processing_times <= window_size

\* C32: a processed tick delivers exactly one result to the output sink,
\* the one process_tick returns: process_tick calls the output callback
\* once, and the worker that called it does not emit the result again.
C32_OneResultPerTick ==
    TickDone => last_tick.delivered = <<last_tick.output>>

\* A 'books' data message whose first data item has asks and bids.
IsBooksSnapshot(message) ==
    /\ message.parse = "dict" /\ message.event = ""
    /\ message.has_data /\ message.has_arg /\ message.channel = "books"
    /\ Len(message.data) > 0
    /\ Len(message.data[1].asks) > 0 /\ Len(message.data[1].bids) > 0

\* C33: on_websocket_message hands a message on to process_tick exactly
\* when it is a 'books' data message whose first data item has non-empty
\* asks and bids; every other message is dropped.
C33_BooksSnapshotsForwarded ==
    last_op.op = "on_websocket_message"
    => (last_op.note = "processed" <=> IsBooksSnapshot(last_op.arg))

(***************************************************************************)
(* Properties of the connector's tasks                                     *)
(***************************************************************************)
Unfinished == {t \in TaskIds : ~Finished(t)}

\* C34: a connector has at most one connection-maintenance task at any
\* time, hence at most one heartbeat loop and one open websocket, whatever
\* the sequence of connect() and disconnect() calls.
C34_OneMaintenanceTask ==
    /\ Cardinality(Unfinished) <= 1
    /\ Cardinality({t \in TaskIds : tasks[t].ping = "running"}) <= 1
    /\ Cardinality({t \in TaskIds : tasks[t].ws = "open"}) <= 1

\* C36: within one maintenance loop a connection attempt other than the
\* first begins only out of the back-off sleep of an except branch, that
\* is after reconnect_attempts was incremented and at least
\* reconnect_interval was waited, however the connection before it ended.
C36_BackoffBeforeEveryRetry ==
    [][\A t \in TaskIds :
          (tasks[t].pc # "connecting" /\ tasks'[t].pc = "connecting")
          => \/ tasks[t].pc = "start"
             \/ tasks[t].pc = "backoff" /\ tasks[t].wait_time >= reconnect_interval]_vars

\* C37: the tracked subscription list never holds the same pair twice.
C37_NoDuplicateSubscription ==
    \A i, j \in 1..Len(subscriptions) :
        subscriptions[i] = subscriptions[j] => i = j

\* C38: when connect() returns False it leaves no background connection
\* activity behind: no maintenance loop that can attempt a connection or
\* open the websocket later.
C38_FailedConnectLeavesNothing ==
    (last_op.op = "connect_return" /\ last_op.ret = "False")
    => Unfinished = {}

\* C35: once the heartbeat check has force-closed a connection, it closes
\* a connection established afterwards only when that connection itself
\* has had no inbound message for more than 2 * ping_interval since it
\* opened.
C35_NewConnectionGetsItsOwnTimeout ==
    [][\A t \in TaskIds :
          ((\E transport_error \in BOOLEAN : PingIter(t, transport_error))
              /\ tasks[t].forced
              /\ tasks[t].ws = "open" /\ websocket = t
              /\ tasks'[t].ws # "open")
          => now - tasks[t].active_at > 2 * ping_interval]_vars

(***************************************************************************)
(* Properties of the features handed to the models                        *)
(***************************************************************************)
\* min(quantity_usd / depth, 1.0), or 1.0 for no depth
SizeToDepth(quantity_usd, depth) ==
    IF depth.num > 0 THEN FracMin(FracDiv(Whole(quantity_usd.n), depth), Whole(1))
    ELSE Whole(1)

\* C39: after a tick that was priced on a book with both sides non-empty,
\* the spread, the depth and the volume imbalance that the maker/taker
\* model and the slippage model used are the ones extracted from that
\* book: the spread in percent, the imbalance of the volumes, and a size
\* to depth ratio taken from one of the depths the book reports.
C39_ModelsUseBookFeatures ==
    (/\ TickDone /\ last_tick.success
     /\ IsNumber(parameters.quantityUSD)
     /\ DOMAIN order_book.bids # {} /\ DOMAIN order_book.asks # {}
     /\ DOMAIN GetOrderBookFeatures(order_book) # {})
    => LET f == GetOrderBookFeatures(order_book)
           mt == last_tick.calls.maker_taker_used
           slip == last_tick.calls.slippage_used
           Depth(e) == FracOf(f[e.name])
       IN /\ mt.present /\ slip.present
          /\ mt.spread_percentage = FracOf(f["spread_pct"])
          /\ slip.spread_percentage = FracOf(f["spread_pct"])
          /\ slip.volume_imbalance = FracOf(f["bid_ask_imbalance"])
          /\ \E e \in SizedFeatures :
                /\ e.kind = "ask_depth"
                /\ slip.order_size_to_depth_ratio
                     = SizeToDepth(parameters.quantityUSD, Depth(e))
          /\ \E b, a \in SizedFeatures :
                /\ b.kind = "bid_depth" /\ a.kind = "ask_depth" /\ b.n = a.n
                /\ mt.order_size_to_depth_ratio
                     = SizeToDepth(parameters.quantityUSD,
                                   FracDiv(FracAdd(Depth(b), Depth(a)), Whole(2)))

\* C40: update of the orderbook.py book is all-or-nothing: after a call
\* that raised, the book (its bids, asks and timestamp) is as it was
\* before the call.
C40_FailedUpdateChangesNothing ==
    (last_update.target = "orderbook" /\ last_update.raised)
    => orderbook = last_update.before
====
